---- MODULE Spec2Model ----
(***************************************************************************)
(* x11bench: the canonical RGBA8 image (image.hpp / image.cpp), the        *)
(* comparison engine (compare.hpp / compare.cpp), the normalizer           *)
(* (capture.cpp) and the test runner (main.cpp), as state machines.        *)
(*                                                                         *)
(*   SpecCompare  the comparison operations applied to a pair of images    *)
(*   SpecImage    the life of two Image objects under the Image operations *)
(*   Spec         one pass of the runner's loop over the registered tests  *)
(*   SpecCapture  one call of the normalizer (capture.cpp)                 *)
(***************************************************************************)
EXTENDS Integers, Sequences, FiniteSets, TLC

VARIABLES
    cmp_a, cmp_b,        \* the two images handed to Compare
    cmp_op, cmp_arg,     \* the last Compare operation applied and its argument
    cmp_result,          \* the CompareResult it returned
    cmp_diff,            \* the Image it returned, when it was generate_diff
    obj,                 \* the two Image objects: obj[1] and obj[2]
    obj_ret,             \* what the last Image operation returned (load_png,
                         \* save_png; TRUE for the others)
    obj_op,              \* the last Image operation: its name, the object it
                         \* was called on and the step at which it ended
    png_file,            \* the file at the path save_png writes to and
                         \* load_png reads back
    png_save,            \* the last save_png at that path: the image it was
                         \* handed and what it returned
    opts,                \* the runner's Options: regenerate, save_failures, filter
    run_pc,              \* where main stands
    run_i,               \* the index in the sorted registry of the test at hand
    passed, failed, skipped,   \* main's counters
    exit_code,           \* main's return value, -1 while it runs
    display,             \* the Display object: display_, window_, width_, height_;
                         \* and of its X server: x_last, the last window ID it
                         \* handed out, and x_alive, the ID of the client's
                         \* window that exists (0: none)
    test_passed,         \* test_passed() of the test at hand, after render
    ref_found,           \* the file found at the test's ref_path
    ref_file,            \* the file at the test's ref_path now
    fail_file,           \* the file at the test's fail_path (name_fail.png) now
    acquired,            \* what capture_region got for the test: "none" so far,
                         \* "no_window", "null" (XGetImage failed) or "frame"
    diff_file,           \* the file at the test's diff_path (name_diff.png) now
    captured,            \* main's Image captured
    reference,           \* main's Image reference
    run_result,          \* main's CompareResult result
    compared,            \* whether Compare was called for the test at hand
    verdict,             \* how the test at hand ended
    cap_pc,              \* the normalizer call at hand, and whether it returned
    cap_pixel, cap_mask, \* the arguments of extract_channel
    cap_channel,         \* what extract_channel returned
    cap_ximg,            \* the XImage handed to ximage_to_image
    cap_image,           \* the Image ximage_to_image returned
    cap_reads,           \* the number of pixels ximage_to_image read
    cap_work,            \* what extract_channel's loops did: the largest amount
                         \* it shifted a word by and the turns of its loops
    sz_image,            \* an Image as Image(width, height) constructed it
    sz_at,               \* the coordinates <<x, y>> get_pixel / set_pixel were given
    sz_offset,           \* the byte offset they computed (-1: none yet)
    sz_total             \* the total_pixels fuzzy computed for the image (-1: none)

cmpVars == <<cmp_a, cmp_b, cmp_op, cmp_arg, cmp_result, cmp_diff>>

objVars == <<obj, obj_ret, obj_op, png_file, png_save>>

runVars ==
    <<opts, run_pc, run_i, passed, failed, skipped, exit_code, display,
      test_passed, ref_found, ref_file, fail_file, diff_file, captured, reference,
      run_result, compared, verdict, acquired>>

capVars ==
    <<cap_pc, cap_pixel, cap_mask, cap_channel, cap_ximg, cap_image, cap_reads, cap_work>>

sizeVars == <<sz_image, sz_at, sz_offset, sz_total>>

vars == <<cmpVars, objVars, runVars, capVars, sizeVars>>

-----------------------------------------------------------------------------
(* Bounds of the model *)

\* width and height of the images range over 0..MaxDim
MaxDim == 2

\* unsigned long is LongBits bits wide (sizeof(unsigned long) * 8)
LongBits == 24

\* the X server hands out window IDs 1..MaxWindows
MaxWindows == 4

\* an image holds at most MaxPixels pixels
MaxPixels == 4

\* an Image object of SpecImage holds at most ObjMaxPixels pixels
ObjMaxPixels == 2

\* the pixels and masks handed to extract_channel are MaskBits bits wide
MaskBits == 6

\* an XImage handed to ximage_to_image holds at most FrameMaxPixels pixels
FrameMaxPixels == 2

\* the width in bits of the model's unsigned word, which stands for uint32_t
\* (TLC's integers end at 2^31 - 1, so 2^32 itself cannot be written)
WordBits == 16

-----------------------------------------------------------------------------
(* Machine arithmetic *)

\* uint32_t arithmetic wraps modulo the word
U32 == 2^WordBits

Max2(x, y) == IF x >= y THEN x ELSE y

Min2(x, y) == IF x <= y THEN x ELSE y

\* a double that holds the quotient num / den of two integers, den > 0
Rat(n, d) == [num |-> n, den |-> d]

\* q <= p for a quotient q and an integral double p
RatLeqInt(q, p) == q.num <= p * q.den

-----------------------------------------------------------------------------
(* image.hpp / image.cpp: Pixel and Image *)

\* the largest value of a channel, a uint8_t
ChannelMax == 255

Pixel(r, g, b, a) == [r |-> r, g |-> g, b |-> b, a |-> a]

\* Image::Image(width, height): a zeroed buffer of width * height * 4 bytes,
\* the product taken in uint32_t
Image(width, height) ==
    [width |-> width, height |-> height,
     data |-> [i \in 1..((width * height * 4) % U32) |-> 0]]

\* Image(): the default-constructed image
EmptyImage == [width |-> 0, height |-> 0, data |-> <<>>]

\* Image::empty()
empty(img) == Len(img.data) = 0

\* the byte offset of pixel (x, y), computed in uint32_t
offset(img, x, y) == ((y * img.width + x) * 4) % U32

\* Image::get_pixel: the caller stays in range (out of range throws)
get_pixel(img, x, y) ==
    LET o == offset(img, x, y)
    IN  Pixel(img.data[o + 1], img.data[o + 2], img.data[o + 3], img.data[o + 4])

\* Image::set_pixel: out-of-range coordinates throw and leave the image as it was
set_pixel(img, x, y, pixel) ==
    IF x >= img.width \/ y >= img.height
    THEN img
    ELSE LET o == offset(img, x, y)
         IN  [img EXCEPT !.data = [i \in 1..Len(img.data) |->
                 CASE i = o + 1 -> pixel.r
                   [] i = o + 2 -> pixel.g
                   [] i = o + 3 -> pixel.b
                   [] i = o + 4 -> pixel.a
                   [] OTHER -> img.data[i]]]

\* Image(const Image&) and operator=(const Image&): the target's new value
copy_of(other) ==
    [width |-> other.width, height |-> other.height, data |-> other.data]

\* Image(Image&&) and operator=(Image&&): what is left of the source, its
\* dimensions zeroed and its buffer moved out
moved_from_keeps_size(other) == [other EXCEPT !.data = <<>>]

moved_from(other) == [width |-> 0, height |-> 0, data |-> <<>>]

\* Image::fill: every 4-byte group of the buffer becomes the pixel
fill(img, pixel) ==
    [img EXCEPT !.data = [i \in 1..Len(img.data) |->
        CASE (i - 1) % 4 = 0 -> pixel.r
          [] (i - 1) % 4 = 1 -> pixel.g
          [] (i - 1) % 4 = 2 -> pixel.b
          [] OTHER -> pixel.a]]

\* std::vector::resize(n): the first n bytes kept, new bytes zero
resize(data, n) == [i \in 1..n |-> IF i <= Len(data) THEN data[i] ELSE 0]

\* A PNG file on disk: whether it exists, whether it is a complete PNG stream,
\* and the IHDR size and the rows of RGBA8 bytes written so far (a file cut
\* short by a write error keeps its header and its first rows)
NoFile == [exists |-> FALSE, valid |-> FALSE, width |-> 0, height |-> 0, rows |-> <<>>]

\* a file opened with "wb" into which nothing was written
TruncatedFile == [NoFile EXCEPT !.exists = TRUE]

\* the top row of the buffer handed to the encoder for every row
row_of_top(image, y) ==
    [k \in 1..(image.width * 4) |-> image.data[k]]

\* row y (from 0) of the buffer, as save_png's row_pointers[y] hands it to the
\* encoder: the width * 4 bytes from data_ + y * width_ * 4
row_of(image, y) ==
    [k \in 1..(image.width * 4) |-> image.data[((y * image.width * 4) % U32) + k]]

\* the steps at which save_png can end: fopen fails, the encoder cannot be
\* created, the encoder reports an error (longjmp) after `rows` rows, or success
SaveOutcomes == {"fopen", "write_struct", "info_struct", "png_error", "ok"}

\* Image::save_png over the file that was at the path before; libpng rejects
\* an IHDR with a zero width or height, so such an image never ends "ok"
save_png(image, before, outcome, rows) ==
    CASE outcome = "fopen" -> [file |-> before, ret |-> FALSE]
      [] outcome \in {"write_struct", "info_struct"} ->
             [file |-> TruncatedFile, ret |-> FALSE]
      [] outcome = "png_error" \/ image.width = 0 \/ image.height = 0 ->
             [file |-> IF image.width = 0 \/ image.height = 0
                       THEN TruncatedFile
                       ELSE [exists |-> TRUE, valid |-> FALSE,
                             width |-> image.width, height |-> image.height,
                             rows |-> [y \in 1..Min2(rows, image.height - 1) |->
                                          row_of(image, y - 1)]],
              ret |-> FALSE]
      [] OTHER ->
             [file |-> [exists |-> TRUE, valid |-> TRUE,
                        width |-> image.width, height |-> image.height,
                        rows |-> [y \in 1..image.height |-> row_of(image, y - 1)]],
              ret |-> TRUE]

\* the steps at which load_png can end: the returns before the decoder exists,
\* the decoder's error (longjmp) while reading the header, after the header was
\* read and width_, height_ were stored, or while reading the rows; and success
LoadOutcomes ==
    {"fopen", "read_struct", "info_struct", "read_info", "update_info",
     "read_image", "ok"}

\* the outcomes a given file allows: a missing file fails at fopen, a file with
\* no header fails no later than png_read_info, a file cut short cannot succeed
LoadOutcomesOf(file) ==
    IF ~ file.exists THEN {"fopen"}
    ELSE IF file.width = 0 \/ file.height = 0
    THEN {"fopen", "read_struct", "info_struct", "read_info"}
    ELSE IF ~ file.valid THEN LoadOutcomes \ {"ok"}
    ELSE LoadOutcomes

\* the buffer after png_read_image stored the file's first n rows through
\* row_pointers[y] = data_ + y * width_ * 4 into the resized buffer
rows_read(data, file, n) ==
    [i \in 1..Len(data) |->
        IF i <= n * file.width * 4
        THEN file.rows[((i - 1) \div (file.width * 4)) + 1][((i - 1) % (file.width * 4)) + 1]
        ELSE data[i]]

\* Image::load_png; when the decoder fails while reading the rows, the first
\* `rows` rows were stored
load_png(image, file, outcome, rows) ==
    CASE outcome \in {"fopen", "read_struct", "info_struct", "read_info"} ->
             [image |-> image, ret |-> FALSE]
      [] outcome = "update_info" ->
             [image |-> [image EXCEPT !.width = file.width, !.height = file.height],
              ret |-> FALSE]
      [] outcome = "read_image" ->
             [image |-> [width |-> file.width, height |-> file.height,
                         data |-> rows_read(
                             resize(image.data, (file.width * file.height * 4) % U32),
                             file, Min2(rows, Len(file.rows)))],
              ret |-> FALSE]
      [] OTHER ->
             [image |-> [width |-> file.width, height |-> file.height,
                         data |-> rows_read(
                             resize(image.data, (file.width * file.height * 4) % U32),
                             file, file.height)],
              ret |-> TRUE]

-----------------------------------------------------------------------------
(* The images of the model: every painting of a small canvas with the palette *)

\* opaque red and a pixel close to it; their channels differ by 2 (red),
\* 0 (green), 1 (blue) and 3 (alpha): their maximum channel difference, 3, is
\* the alpha channel's
Palette == { Pixel(255, 0, 0, 255), Pixel(253, 0, 1, 252) }

Dims == { d \in (0..MaxDim) \X (0..MaxDim) : d[1] * d[2] <= MaxPixels }

Channel(p, c) == CASE c = 0 -> p.r [] c = 1 -> p.g [] c = 2 -> p.b [] OTHER -> p.a

\* the image of the given size whose k-th pixel in row-major order is f[k]
Painted(w, h, f) ==
    [width |-> w, height |-> h,
     data |-> [i \in 1..(w * h * 4) |-> Channel(f[(i - 1) \div 4], (i - 1) % 4)]]

ImagesOfSize(w, h) == { Painted(w, h, f) : f \in [0..(w * h - 1) -> Palette] }

Images == UNION { ImagesOfSize(d[1], d[2]) : d \in Dims }

-----------------------------------------------------------------------------
(* compare.hpp / compare.cpp: CompareResult and Compare *)

\* a default-constructed CompareResult
CompareResult ==
    [match |-> FALSE, different_pixels |-> 0, total_pixels |-> 0,
     difference_percent |-> Rat(0, 1), max_channel_diff |-> 0,
     avg_channel_diff |-> Rat(0, 1), message |-> ""]

\* a difference that keeps its sign
channel_diff_signed(a, b) == a - b

\* Compare::channel_diff
channel_diff(a, b) == IF a >= b THEN a - b ELSE b - a

\* the test that counts a pixel as different: max_diff > tolerance
pixel_differs_inverted(max_diff, tolerance) == max_diff < tolerance

pixel_differs_geq(max_diff, tolerance) == max_diff >= tolerance

pixel_differs(max_diff, tolerance) == max_diff > tolerance

\* a loop body that keeps the last pixel's largest difference
fuzzy_pixel_keeps_last(img1, img2, tolerance, x, y, acc) ==
    LET p1 == get_pixel(img1, x, y)
        p2 == get_pixel(img2, x, y)
        dr == channel_diff(p1.r, p2.r)
        dg == channel_diff(p1.g, p2.g)
        db == channel_diff(p1.b, p2.b)
        da == channel_diff(p1.a, p2.a)
        max_diff == Max2(Max2(dr, dg), Max2(db, da))
    IN  [different_pixels |->
             IF pixel_differs(max_diff, tolerance)
             THEN (acc.different_pixels + 1) % U32
             ELSE acc.different_pixels,
         max_channel_diff |-> max_diff,
         total_diff |-> acc.total_diff + dr + dg + db + da,
         channel_count |-> acc.channel_count + 4]

\* the body of fuzzy's loops at pixel (x, y): what it makes of different_pixels,
\* max_channel_diff, total_diff and channel_count
fuzzy_pixel(img1, img2, tolerance, x, y, acc) ==
    LET p1 == get_pixel(img1, x, y)
        p2 == get_pixel(img2, x, y)
        dr == channel_diff(p1.r, p2.r)
        dg == channel_diff(p1.g, p2.g)
        db == channel_diff(p1.b, p2.b)
        da == channel_diff(p1.a, p2.a)
        max_diff == Max2(Max2(dr, dg), Max2(db, da))
    IN  [different_pixels |->
             IF pixel_differs(max_diff, tolerance)
             THEN (acc.different_pixels + 1) % U32
             ELSE acc.different_pixels,
         max_channel_diff |-> Max2(acc.max_channel_diff, max_diff),
         total_diff |-> acc.total_diff + dr + dg + db + da,
         channel_count |-> acc.channel_count + 4]

\* fuzzy's loops: rows y, columns x
RECURSIVE fuzzy_loop(_, _, _, _, _, _)
fuzzy_loop(img1, img2, tolerance, y, x, acc) ==
    IF y >= img1.height THEN acc
    ELSE IF x >= img1.width THEN fuzzy_loop(img1, img2, tolerance, y + 1, 0, acc)
    ELSE fuzzy_loop(img1, img2, tolerance, y, x + 1,
                    fuzzy_pixel(img1, img2, tolerance, x, y, acc))

\* the result fuzzy returns at once when the dimensions differ
dimension_mismatch_counted(img1, img2) ==
    [CompareResult EXCEPT !.match = FALSE, !.message = "Dimension mismatch",
                          !.total_pixels = (img1.width * img1.height) % U32]

dimension_mismatch(img1, img2) ==
    [CompareResult EXCEPT !.match = FALSE, !.message = "Dimension mismatch"]

\* Compare::fuzzy
fuzzy(img1, img2, tolerance) ==
    IF img1.width # img2.width \/ img1.height # img2.height
    THEN dimension_mismatch(img1, img2)
    ELSE IF empty(img1) \/ empty(img2)
    THEN [CompareResult EXCEPT
             !.match = empty(img1) /\ empty(img2),
             !.message = IF empty(img1) /\ empty(img2)
                         THEN "Both images empty" ELSE "One image empty"]
    ELSE LET total == (img1.width * img1.height) % U32
             acc == fuzzy_loop(img1, img2, tolerance, 0, 0,
                        [different_pixels |-> 0, max_channel_diff |-> 0,
                         total_diff |-> 0, channel_count |-> 0])
             match == acc.different_pixels = 0
         IN  [match |-> match,
              different_pixels |-> acc.different_pixels,
              total_pixels |-> total,
              difference_percent |->
                  IF total > 0 THEN Rat(100 * acc.different_pixels, total)
                  ELSE Rat(0, 1),
              max_channel_diff |-> acc.max_channel_diff,
              avg_channel_diff |->
                  IF acc.channel_count > 0 THEN Rat(acc.total_diff, acc.channel_count)
                  ELSE Rat(0, 1),
              message |->
                  IF match
                  THEN (IF tolerance > 0 THEN "Images match (within tolerance)"
                        ELSE "Images match")
                  ELSE "pixels differ"]

\* Compare::exact
exact(img1, img2) == fuzzy(img1, img2, 0)

\* the threshold test of fuzzy_percent: difference_percent <= max_diff_percent
within_percent_inverted(difference_percent, max_diff_percent) ==
    ~ RatLeqInt(difference_percent, max_diff_percent)

within_percent(difference_percent, max_diff_percent) ==
    RatLeqInt(difference_percent, max_diff_percent)

\* Compare::fuzzy_percent: fuzzy at tolerance 255, match overridden by the
\* percentage threshold
fuzzy_percent(img1, img2, max_diff_percent) ==
    LET result == fuzzy(img1, img2, 255)
        match == within_percent(result.difference_percent, max_diff_percent)
    IN  [result EXCEPT
            !.match = match,
            !.message = IF match /\ result.different_pixels > 0
                        THEN "pixels differ - within threshold"
                        ELSE result.message]

\* a canvas as large as the smaller of the two images
canvas_side_min(a, b) == Min2(a, b)

\* generate_diff: one side of the canvas, std::max of the two images' sides
canvas_side(a, b) == Max2(a, b)

\* sentinels with green and blue exchanged
outside_pixel_swapped(in_img1, in_img2) ==
    IF ~ in_img1 /\ ~ in_img2 THEN Pixel(0, 0, 0, 255)
    ELSE IF ~ in_img1 THEN Pixel(0, 0, 255, 255)
    ELSE Pixel(0, 255, 0, 255)

\* generate_diff: the pixel painted where one of the images, or both, have
\* none: black outside both, green in img2 only, blue in img1 only
outside_pixel(in_img1, in_img2) ==
    IF ~ in_img1 /\ ~ in_img2 THEN Pixel(0, 0, 0, 255)
    ELSE IF ~ in_img1 THEN Pixel(0, 255, 0, 255)
    ELSE Pixel(0, 0, 255, 255)

\* a highlight whose intensity is not clamped before the cast to uint8_t
highlight_unclamped(max_diff) ==
    LET intensity == (max_diff * 2) % 256
    IN  Pixel(255, (255 - intensity) % 256, (255 - intensity) % 256, 255)

\* generate_diff: the highlight of a pixel that differs,
\* intensity = static_cast<uint8_t>(std::min(255, max_diff * 2))
highlight(max_diff) ==
    LET intensity == Min2(255, max_diff * 2) % 256
    IN  Pixel(255, (255 - intensity) % 256, (255 - intensity) % 256, 255)

\* a matching pixel shown as it is
darkened_not(p1) == Pixel(p1.r, p1.g, p1.b, 255)

\* generate_diff: a matching pixel, each colour channel of img1's halved
darkened(p1) == Pixel(p1.r \div 2, p1.g \div 2, p1.b \div 2, 255)

\* generate_diff: the pixel painted at (x, y)
diff_pixel(img1, img2, tolerance, x, y) ==
    LET in_img1 == x < img1.width /\ y < img1.height
        in_img2 == x < img2.width /\ y < img2.height
    IN  IF ~ in_img1 \/ ~ in_img2 THEN outside_pixel(in_img1, in_img2)
        ELSE LET p1 == get_pixel(img1, x, y)
                 p2 == get_pixel(img2, x, y)
                 dr == channel_diff(p1.r, p2.r)
                 dg == channel_diff(p1.g, p2.g)
                 db == channel_diff(p1.b, p2.b)
                 da == channel_diff(p1.a, p2.a)
                 max_diff == Max2(Max2(dr, dg), Max2(db, da))
             IN  IF max_diff > tolerance THEN highlight(max_diff) ELSE darkened(p1)

\* generate_diff: the loops over the canvas, rows y and columns x
RECURSIVE diff_loop(_, _, _, _, _, _)
diff_loop(img1, img2, tolerance, y, x, diff) ==
    IF y >= diff.height THEN diff
    ELSE IF x >= diff.width THEN diff_loop(img1, img2, tolerance, y + 1, 0, diff)
    ELSE diff_loop(img1, img2, tolerance, y, x + 1,
                   set_pixel(diff, x, y, diff_pixel(img1, img2, tolerance, x, y)))

\* Compare::generate_diff
generate_diff(img1, img2, tolerance) ==
    LET width == canvas_side(img1.width, img2.width)
        height == canvas_side(img1.height, img2.height)
    IN  IF width = 0 \/ height = 0 THEN EmptyImage
        ELSE diff_loop(img1, img2, tolerance, 0, 0, Image(width, height))

-----------------------------------------------------------------------------
(* capture.cpp: the normalizer, from an XImage to the canonical RGBA8 Image *)

\* n >> k and the bitwise operators on unsigned long, by their bits
shift_right(n, k) == n \div (2^k)

RECURSIVE bit_and(_, _)
bit_and(a, b) ==
    IF a = 0 \/ b = 0 THEN 0
    ELSE (a % 2) * (b % 2) + 2 * bit_and(a \div 2, b \div 2)

RECURSIVE bit_or(_, _)
bit_or(a, b) ==
    IF a = 0 THEN b
    ELSE IF b = 0 THEN a
    ELSE Max2(a % 2, b % 2) + 2 * bit_or(a \div 2, b \div 2)

\* a & ~b
RECURSIVE bit_and_not(_, _)
bit_and_not(a, b) ==
    IF a = 0 THEN 0
    ELSE (a % 2) * (1 - (b % 2)) + 2 * bit_and_not(a \div 2, b \div 2)

\* extract_channel's first loop: the position of the lowest set bit of the
\* mask, counted up from `shift` and no further than the width of the word
RECURSIVE mask_shift(_, _)
mask_shift(mask, shift) ==
    IF shift_right(mask, shift) % 2 = 0 /\ shift < LongBits
    THEN mask_shift(mask, shift + 1)
    ELSE shift

\* extract_channel's second loop: the number of set bits of tmp
RECURSIVE count_bits(_)
count_bits(tmp) == IF tmp = 0 THEN 0 ELSE (tmp % 2) + count_bits(tmp \div 2)

\* the turns of extract_channel's second loop: one for every bit of tmp up
\* to its highest set bit
RECURSIVE count_turns(_)
count_turns(tmp) == IF tmp = 0 THEN 0 ELSE 1 + count_turns(tmp \div 2)

\* the loops entered with a mask of zero as well
extract_work_unguarded(mask) ==
    LET shift == mask_shift(mask, 0)
    IN  [shift |-> shift, turns |-> shift + count_turns(shift_right(mask, shift))]

\* what extract_channel's loops do for a mask: nothing for a mask of zero;
\* otherwise the first loop ends at `shift`, the largest amount a word is
\* shifted by (mask >> shift, (pixel & mask) >> shift), and the second loop
\* turns once for every bit of the shifted mask
extract_work(mask) ==
    IF mask = 0 THEN [shift |-> 0, turns |-> 0]
    ELSE LET shift == mask_shift(mask, 0)
         IN  [shift |-> shift, turns |-> shift + count_turns(shift_right(mask, shift))]

\* a rounding that drops the fraction
lround_truncating(q) == q.num \div q.den

\* std::lround of a non-negative quotient: to the nearest integer, halves upward
lround(q) == (2 * q.num + q.den) \div (2 * q.den)

\* std::min(255.0, normalized)
min_255(q) == IF q.num >= 255 * q.den THEN Rat(255, 1) ELSE q

\* a channel handed on as the raw value, not rescaled
extract_channel_unscaled(pixel, mask) ==
    IF mask = 0 THEN 0
    ELSE Min2(255, shift_right(bit_and(pixel, mask), mask_shift(mask, 0)))

\* extract_channel: the bits of the pixel under the mask, rescaled from
\* 0..shifted_mask to 0..255. The values here are small enough for the doubles
\* to hold value * 255.0 / max_val to well within half a unit.
extract_channel(pixel, mask) ==
    IF mask = 0 THEN 0
    ELSE LET shift == mask_shift(mask, 0)
             shifted_mask == shift_right(mask, shift)
             bits == count_bits(shifted_mask)
             value == shift_right(bit_and(pixel, mask), shift)
             max_val == shifted_mask
             normalized == IF max_val > 0 THEN Rat(value * 255, max_val) ELSE Rat(0, 1)
         IN  IF bits = 0 THEN 0
             ELSE lround(min_255(normalized)) % 256

\* no XImage
NullXImage ==
    [null |-> TRUE, width |-> 0, height |-> 0, depth |-> 0, bits_per_pixel |-> 0,
     red_mask |-> 0, green_mask |-> 0, blue_mask |-> 0, pixels |-> <<>>]

\* an XImage, by what the normalizer reads of it; pixels holds what
\* XGetPixel returns, row after row
XImage(width, height, depth, bits_per_pixel, red_mask, green_mask, blue_mask, pixels) ==
    [null |-> FALSE, width |-> width, height |-> height, depth |-> depth,
     bits_per_pixel |-> bits_per_pixel, red_mask |-> red_mask,
     green_mask |-> green_mask, blue_mask |-> blue_mask, pixels |-> pixels]

XGetPixel(ximg, x, y) == ximg.pixels[y * ximg.width + x + 1]

\* (1UL << bpp) - 1, for the bits_per_pixel below the width of unsigned long
pixel_mask(bpp) == 2^bpp - 1

\* the alpha mask ximage_to_image works out: the non-RGB bits inside the pixel
\* when the depth is above 24, no mask otherwise
alpha_mask_of(ximg) ==
    IF ximg.depth > 24
    THEN bit_and_not(pixel_mask(ximg.bits_per_pixel),
                     bit_or(bit_or(ximg.red_mask, ximg.green_mask), ximg.blue_mask))
    ELSE 0

\* an alpha that is left at 0 when the pixel holds 0
alpha_of_keeps_zero(pixel, alpha_mask) ==
    IF alpha_mask # 0 THEN extract_channel(pixel, alpha_mask) ELSE 255

\* the alpha of one pixel: 255 without a mask, and 255 when the mask yields 0
alpha_of(pixel, alpha_mask) ==
    LET a == IF alpha_mask # 0 THEN extract_channel(pixel, alpha_mask) ELSE 255
    IN  IF alpha_mask # 0 /\ a = 0 THEN 255 ELSE a

\* the loops of ximage_to_image over rows y and columns x; acc holds the image
\* so far and the number of XGetPixel calls
RECURSIVE normalize_loop(_, _, _, _, _)
normalize_loop(ximg, alpha_mask, y, x, acc) ==
    IF y >= ximg.height THEN acc
    ELSE IF x >= ximg.width THEN normalize_loop(ximg, alpha_mask, y + 1, 0, acc)
    ELSE LET pixel == XGetPixel(ximg, x, y)
             r == extract_channel(pixel, ximg.red_mask)
             g == extract_channel(pixel, ximg.green_mask)
             b == extract_channel(pixel, ximg.blue_mask)
             a == alpha_of(pixel, alpha_mask)
         IN  normalize_loop(ximg, alpha_mask, y, x + 1,
                 [image |-> set_pixel(acc.image, x, y, Pixel(r, g, b, a)),
                  reads |-> acc.reads + 1])

\* a normalizer that answers a frame without pixels with the default image
ximage_to_image_default_when_empty(ximg) ==
    IF ximg.null \/ ximg.width = 0 \/ ximg.height = 0
    THEN [image |-> EmptyImage, reads |-> 0]
    ELSE normalize_loop(ximg, alpha_mask_of(ximg), 0, 0,
             [image |-> Image(ximg.width, ximg.height), reads |-> 0])

\* Capture::ximage_to_image, with the number of pixels it read
ximage_to_image(ximg) ==
    IF ximg.null THEN [image |-> EmptyImage, reads |-> 0]
    ELSE normalize_loop(ximg, alpha_mask_of(ximg), 0, 0,
             [image |-> Image(ximg.width, ximg.height), reads |-> 0])

-----------------------------------------------------------------------------
(* display.hpp / display.cpp: the part of Display the runner drives *)

\* a default-constructed Display: no connection, no window
NoDisplay ==
    [display_ |-> FALSE, window_ |-> 0, width_ |-> 0, height_ |-> 0,
     x_last |-> 0, x_alive |-> 0]

\* Display::is_connected, Display::has_window
is_connected(d) == d.display_

has_window(d) == d.window_ # 0

\* Display::connect: already connected, or XOpenDisplay succeeds or fails
connect(d, opened) ==
    IF d.display_ THEN [display |-> d, ret |-> TRUE]
    ELSE IF ~ opened THEN [display |-> d, ret |-> FALSE]
    ELSE [display |-> [d EXCEPT !.display_ = TRUE], ret |-> TRUE]

\* Display::disconnect: XCloseDisplay (the server destroys the client's
\* windows) and display_ = nullptr; window_ is left as it is
disconnect(d) ==
    [d EXCEPT !.display_ = FALSE,
              !.x_alive = IF d.display_ THEN 0 ELSE d.x_alive]

\* a destroy_window that leaves the Display as it is
destroy_window_skipped(d) == d

\* Display::destroy_window: XDestroyWindow and window_ = 0 only with both a
\* window_ and a connection; width_ and height_ are zeroed either way
destroy_window(d) ==
    [d EXCEPT !.window_ = IF d.window_ # 0 /\ d.display_ THEN 0 ELSE d.window_,
              !.x_alive = IF d.window_ # 0 /\ d.display_ /\ d.x_alive = d.window_
                          THEN 0 ELSE d.x_alive,
              !.width_ = 0, !.height_ = 0]

\* what the X server answers to create_window: the window and its GC are
\* created, XCreateWindow returns 0, or XCreateGC returns null
CreateOutcomes == {"ok", "XCreateWindow", "XCreateGC"}

\* Display::create_window: false without a connection, true at once with a
\* window_; otherwise width_ and height_ are stored and the window created
\* (and destroyed again when its GC cannot be created)
create_window(d, width, height, outcome) ==
    IF ~ d.display_ THEN [display |-> d, ret |-> FALSE]
    ELSE IF d.window_ # 0 THEN [display |-> d, ret |-> TRUE]
    ELSE IF outcome = "ok"
    THEN [display |-> [d EXCEPT !.width_ = width, !.height_ = height,
                                !.window_ = d.x_last + 1,
                                !.x_last = d.x_last + 1, !.x_alive = d.x_last + 1],
          ret |-> TRUE]
    ELSE IF outcome = "XCreateGC"
    THEN [display |-> [d EXCEPT !.width_ = width, !.height_ = height, !.window_ = 0,
                                !.x_last = d.x_last + 1],
          ret |-> FALSE]
    ELSE [display |-> [d EXCEPT !.width_ = width, !.height_ = height, !.window_ = 0],
          ret |-> FALSE]

-----------------------------------------------------------------------------
(* tests/: the registry, by what the runner reads of each test *)

\* Four of the registered tests, in the order main sorts them (by registered
\* name): one with a tolerance, one with a tolerance and an allowed percentage,
\* one with the defaults, and a self-verifying WindowTestBase test. The windows
\* are scaled down: 2x1 stands for the default 256x256 and 1x2 for 400x300.
Tests ==
    << [registered |-> "TestAlphaGradient", name |-> "alpha_gradient",
        width |-> 2, height |-> 1, tolerance |-> 3, allowed_diff_percent |-> 0],
       [registered |-> "TestBasicText", name |-> "basic_text",
        width |-> 1, height |-> 2, tolerance |-> 5, allowed_diff_percent |-> 1],
       [registered |-> "TestSolidRed", name |-> "solid_red",
        width |-> 2, height |-> 1, tolerance |-> 0, allowed_diff_percent |-> 0],
       [registered |-> "TestWinStackBasic", name |-> "win_stack_basic",
        width |-> 2, height |-> 1, tolerance |-> -1, allowed_diff_percent |-> 0] >>

\* TestBase::is_self_verifying
is_self_verifying(test) == test.tolerance = -1

\* matches_filter(name, filter): the filter is empty or occurs in the name
matches_filter(name, filter) ==
    \/ filter = ""
    \/ filter = "Text" /\ name = "TestBasicText"

-----------------------------------------------------------------------------
(* SpecCompare: the comparison operations on a pair of images *)

\* the tolerances handed to fuzzy: the tests' (0, 2, 3), the self-verifying
\* tests' -1, and the largest channel value
Tolerances == {-1, 0, 2, 3, 255}

\* the thresholds handed to fuzzy_percent, in percent
Percents == {0, 1, 2, 100}

\* no image constructed for its size, no offset and no total computed
SizeIdle ==
    /\ sz_image = EmptyImage /\ sz_at = <<0, 0>>
    /\ sz_offset = -1 /\ sz_total = -1

\* the normalizer not called
CaptureIdle ==
    /\ cap_pc = "idle"
    /\ cap_pixel = 0 /\ cap_mask = 0 /\ cap_channel = 0
    /\ cap_ximg = NullXImage /\ cap_image = EmptyImage /\ cap_reads = 0
    /\ cap_work = [shift |-> 0, turns |-> 0]

\* the runner before main has done anything
RunnerIdle ==
    /\ opts = [regenerate |-> FALSE, save_failures |-> FALSE, filter |-> ""]
    /\ run_pc = "connect" /\ run_i = 1
    /\ passed = 0 /\ failed = 0 /\ skipped = 0 /\ exit_code = -1
    /\ display = NoDisplay
    /\ test_passed = FALSE
    /\ ref_found = NoFile /\ ref_file = NoFile
    /\ fail_file = NoFile /\ diff_file = NoFile
    /\ acquired = "none"
    /\ captured = EmptyImage /\ reference = EmptyImage
    /\ run_result = CompareResult
    /\ compared = FALSE
    /\ verdict = "none"

\* an operation of Image, the object it was called on, the step it ended at
Op(name, i, outcome) == [name |-> name, target |-> i, outcome |-> outcome]

ObjectsIdle ==
    /\ obj = [i \in 1..2 |-> EmptyImage] /\ obj_ret = TRUE
    /\ obj_op = Op("none", 1, "ok")
    /\ png_file = NoFile /\ png_save = [image |-> EmptyImage, ret |-> FALSE]

\* a 1x1 image of one gray level
Gray(v) == Painted(1, 1, [k \in {0} |-> Pixel(v, v, v, 255)])

\* the pairs of images handed to Compare: every two images of the model, and
\* every gray level against black, a pair for each channel difference 0..255
ImagePairs ==
    (Images \X Images) \cup { <<Gray(v), Gray(0)>> : v \in 0..ChannelMax }

CompareInit ==
    /\ ObjectsIdle
    /\ RunnerIdle
    /\ CaptureIdle
    /\ SizeIdle
    /\ \E pair \in ImagePairs : cmp_a = pair[1] /\ cmp_b = pair[2]
    /\ cmp_op = "none"
    /\ cmp_arg = 0
    /\ cmp_result = CompareResult
    /\ cmp_diff = EmptyImage

DoExact ==
    /\ cmp_op' = "exact"
    /\ cmp_arg' = 0
    /\ cmp_result' = exact(cmp_a, cmp_b)
    /\ cmp_diff' = EmptyImage
    /\ UNCHANGED <<cmp_a, cmp_b, objVars, runVars, capVars, sizeVars>>

DoFuzzy ==
    \E tolerance \in Tolerances :
        /\ cmp_op' = "fuzzy"
        /\ cmp_arg' = tolerance
        /\ cmp_result' = fuzzy(cmp_a, cmp_b, tolerance)
        /\ cmp_diff' = EmptyImage
        /\ UNCHANGED <<cmp_a, cmp_b, objVars, runVars, capVars, sizeVars>>

DoFuzzyPercent ==
    \E max_diff_percent \in Percents :
        /\ cmp_op' = "fuzzy_percent"
        /\ cmp_arg' = max_diff_percent
        /\ cmp_result' = fuzzy_percent(cmp_a, cmp_b, max_diff_percent)
        /\ cmp_diff' = EmptyImage
        /\ UNCHANGED <<cmp_a, cmp_b, objVars, runVars, capVars, sizeVars>>

DoGenerateDiff ==
    \E tolerance \in Tolerances :
        /\ cmp_op' = "generate_diff"
        /\ cmp_arg' = tolerance
        /\ cmp_diff' = generate_diff(cmp_a, cmp_b, tolerance)
        /\ cmp_result' = CompareResult
        /\ UNCHANGED <<cmp_a, cmp_b, objVars, runVars, capVars, sizeVars>>

CompareNext == DoExact \/ DoFuzzy \/ DoFuzzyPercent \/ DoGenerateDiff

SpecCompare == CompareInit /\ [][CompareNext]_vars

-----------------------------------------------------------------------------
(* SpecImage: two Image objects under the operations of the class *)

\* the pixel written by fill and set_pixel
Ink == Pixel(10, 20, 30, 255)

\* the sizes of the Image objects
ObjDims == { d \in Dims : d[1] * d[2] <= ObjMaxPixels }

\* the PNG files load_png may be pointed at: black or inked, of every size
\* a PNG can have (neither dimension zero)
PngFiles ==
    { save_png(im, NoFile, "ok", 0).file :
        im \in { Image(d[1], d[2]) : d \in { e \in ObjDims : e[1] > 0 /\ e[2] > 0 } }
           \cup { fill(Image(d[1], d[2]), Ink) : d \in { e \in ObjDims : e[1] > 0 /\ e[2] > 0 } } }

Objects == 1..2

CompareIdle ==
    /\ cmp_a = EmptyImage /\ cmp_b = EmptyImage
    /\ cmp_op = "none" /\ cmp_arg = 0 /\ cmp_result = CompareResult
    /\ cmp_diff = EmptyImage

ImageInit ==
    /\ obj = [i \in Objects |-> EmptyImage]
    /\ obj_ret = TRUE
    /\ obj_op = Op("none", 1, "ok")
    /\ png_file = NoFile /\ png_save = [image |-> EmptyImage, ret |-> FALSE]
    /\ CompareIdle
    /\ RunnerIdle
    /\ CaptureIdle
    /\ SizeIdle

\* Image(width, height)
ImageConstruct ==
    \E i \in Objects, d \in ObjDims :
        /\ obj' = [obj EXCEPT ![i] = Image(d[1], d[2])]
        /\ obj_ret' = TRUE
        /\ obj_op' = Op("Image", i, "ok")
        /\ UNCHANGED <<png_file, png_save>>
        /\ UNCHANGED <<cmpVars, runVars, capVars, sizeVars>>

\* Image(const Image& other): object i is constructed from object j
ImageCopyConstruct ==
    \E i \in Objects, j \in Objects :
        /\ i # j
        /\ obj' = [obj EXCEPT ![i] = copy_of(obj[j])]
        /\ obj_ret' = TRUE
        /\ obj_op' = Op("copy", i, "ok")
        /\ UNCHANGED <<png_file, png_save>>
        /\ UNCHANGED <<cmpVars, runVars, capVars, sizeVars>>

\* Image(Image&& other): object i is constructed from object j
ImageMoveConstruct ==
    \E i \in Objects, j \in Objects :
        /\ i # j
        /\ obj' = [obj EXCEPT ![i] = copy_of(obj[j]), ![j] = moved_from(obj[j])]
        /\ obj_ret' = TRUE
        /\ obj_op' = Op("move", i, "ok")
        /\ UNCHANGED <<png_file, png_save>>
        /\ UNCHANGED <<cmpVars, runVars, capVars, sizeVars>>

\* operator=(const Image& other), self-assignment included
ImageCopyAssign ==
    \E i \in Objects, j \in Objects :
        /\ obj' = IF i # j THEN [obj EXCEPT ![i] = copy_of(obj[j])] ELSE obj
        /\ obj_ret' = TRUE
        /\ obj_op' = Op("copy_assign", i, "ok")
        /\ UNCHANGED <<png_file, png_save>>
        /\ UNCHANGED <<cmpVars, runVars, capVars, sizeVars>>

\* operator=(Image&& other), self-assignment included
ImageMoveAssign ==
    \E i \in Objects, j \in Objects :
        /\ obj' = IF i # j
                  THEN [obj EXCEPT ![i] = copy_of(obj[j]), ![j] = moved_from(obj[j])]
                  ELSE obj
        /\ obj_ret' = TRUE
        /\ obj_op' = Op("move_assign", i, "ok")
        /\ UNCHANGED <<png_file, png_save>>
        /\ UNCHANGED <<cmpVars, runVars, capVars, sizeVars>>

ImageFill ==
    \E i \in Objects :
        /\ obj' = [obj EXCEPT ![i] = fill(obj[i], Ink)]
        /\ obj_ret' = TRUE
        /\ obj_op' = Op("fill", i, "ok")
        /\ UNCHANGED <<png_file, png_save>>
        /\ UNCHANGED <<cmpVars, runVars, capVars, sizeVars>>

\* set_pixel at any coordinates, those out of range (which throw) included
ImageSetPixel ==
    \E i \in Objects, x \in 0..MaxDim, y \in 0..MaxDim :
        /\ obj' = [obj EXCEPT ![i] = set_pixel(obj[i], x, y, Ink)]
        /\ obj_ret' = TRUE
        /\ obj_op' = Op("set_pixel", i, "ok")
        /\ UNCHANGED <<png_file, png_save>>
        /\ UNCHANGED <<cmpVars, runVars, capVars, sizeVars>>

\* load_png of another path that ends before the header of the file was read
ImageLoadPngNoHeader ==
    \E i \in Objects, outcome \in {"fopen", "read_struct", "info_struct", "read_info"} :
        /\ LET r == load_png(obj[i], NoFile, outcome, 0)
           IN  /\ obj' = [obj EXCEPT ![i] = r.image]
               /\ obj_ret' = r.ret
        /\ obj_op' = Op("load_png", i, outcome)
        /\ UNCHANGED <<png_file, png_save>>
        /\ UNCHANGED <<cmpVars, runVars, capVars, sizeVars>>

\* load_png of another path that read the header of a file: it fails before
\* the rows, fails after `rows` of them, or succeeds
ImageLoadPng ==
    \E i \in Objects, file \in PngFiles,
       outcome \in {"update_info", "read_image", "ok"}, rows \in 0..MaxDim :
        /\ rows < file.height
        /\ outcome # "read_image" => rows = 0
        /\ LET r == load_png(obj[i], file, outcome, rows)
           IN  /\ obj' = [obj EXCEPT ![i] = r.image]
               /\ obj_ret' = r.ret
        /\ obj_op' = Op("load_png", i, outcome)
        /\ UNCHANGED <<png_file, png_save>>
        /\ UNCHANGED <<cmpVars, runVars, capVars, sizeVars>>

ImageNext ==
    \/ ImageConstruct
    \/ ImageCopyConstruct
    \/ ImageMoveConstruct
    \/ ImageCopyAssign
    \/ ImageMoveAssign
    \/ ImageFill
    \/ ImageSetPixel
    \/ ImageLoadPngNoHeader
    \/ ImageLoadPng

SpecImage == ImageInit /\ [][ImageNext]_vars

-----------------------------------------------------------------------------
(* SpecPersist: two Image objects saving to one path and loading it back *)

\* the images object 1 holds at first (object 2 is default-constructed, a
\* target to load into): black and inked of every size, one
\* of two rows that differ, and one a failed load_png left with the size of
\* its file and an empty buffer
PersistImages ==
    { Image(d[1], d[2]) : d \in ObjDims }
    \cup { fill(Image(d[1], d[2]), Ink) : d \in ObjDims }
    \cup { set_pixel(Image(1, 2), 0, 1, Ink) }
    \cup { load_png(EmptyImage, f, "update_info", 0).image : f \in PngFiles }

PersistInit ==
    /\ \E im \in PersistImages : obj = [i \in Objects |-> IF i = 1 THEN im ELSE EmptyImage]
    /\ obj_ret = TRUE
    /\ obj_op = Op("none", 1, "ok")
    /\ png_file = NoFile /\ png_save = [image |-> EmptyImage, ret |-> FALSE]
    /\ CompareIdle
    /\ RunnerIdle
    /\ CaptureIdle
    /\ SizeIdle

\* what may lie beyond the end of a buffer
JunkBytes == {0, 255}

\* the width * height * 4 bytes save_png's row_pointers reach from data_: the
\* buffer, and past its end (an image whose buffer is shorter than its size,
\* as a failed load_png leaves it) whatever lies there
bytes_reached(image, junk) ==
    [k \in 1..(image.width * image.height * 4) |->
        IF k <= Len(image.data) THEN image.data[k] ELSE junk]

\* save_png(path) of object i, ending at any of its steps
ImageSavePng ==
    \E i \in Objects, outcome \in SaveOutcomes, rows \in 0..MaxDim, junk \in JunkBytes :
        /\ outcome # "png_error" => rows = 0
        /\ rows <= obj[i].height
        /\ LET r == save_png([obj[i] EXCEPT !.data = bytes_reached(obj[i], junk)],
                             png_file, outcome, rows)
           IN  /\ png_file' = r.file
               /\ obj_ret' = r.ret
               /\ png_save' = [image |-> obj[i], ret |-> r.ret]
        /\ obj_op' = Op("save_png", i, outcome)
        /\ UNCHANGED obj
        /\ UNCHANGED <<cmpVars, runVars, capVars, sizeVars>>

\* load_png(path) into object i of the file save_png left at the path, ending
\* at any of the steps that file allows
ImageLoadSavedPng ==
    \E i \in Objects, outcome \in LoadOutcomesOf(png_file), rows \in 0..MaxDim :
        /\ outcome # "read_image" => rows = 0
        /\ rows <= Len(png_file.rows)
        /\ LET r == load_png(obj[i], png_file, outcome, rows)
           IN  /\ obj' = [obj EXCEPT ![i] = r.image]
               /\ obj_ret' = r.ret
        /\ obj_op' = Op("load_saved_png", i, outcome)
        /\ UNCHANGED <<png_file, png_save>>
        /\ UNCHANGED <<cmpVars, runVars, capVars, sizeVars>>

PersistNext ==
    \/ ImageSavePng
    \/ ImageLoadSavedPng

SpecPersist == PersistInit /\ [][PersistNext]_vars

-----------------------------------------------------------------------------
(* Spec: main.cpp, one pass of the runner *)

\* the reference files a run can find at a test's ref_path: none, or a PNG of
\* one or two pixels
RefFiles ==
    {NoFile} \cup
    { save_png(im, NoFile, "ok", 0).file :
        im \in ImagesOfSize(1, 1) \cup ImagesOfSize(2, 1) \cup ImagesOfSize(1, 2) }

\* the test at hand
Test == Tests[run_i]

Init ==
    /\ ObjectsIdle
    /\ CompareIdle
    /\ CaptureIdle
    /\ SizeIdle
    /\ opts \in [regenerate : BOOLEAN, save_failures : BOOLEAN, filter : {"", "Text"}]
    /\ run_pc = "connect" /\ run_i = 1
    /\ passed = 0 /\ failed = 0 /\ skipped = 0 /\ exit_code = -1
    /\ display = NoDisplay
    /\ test_passed = FALSE
    /\ ref_found = NoFile /\ ref_file = NoFile
    /\ fail_file = NoFile /\ diff_file = NoFile
    /\ acquired = "none"
    /\ captured = EmptyImage /\ reference = EmptyImage
    /\ run_result = CompareResult
    /\ compared = FALSE
    /\ verdict = "none"

\* the end of one iteration of the loop: on to the next registered test
NextIteration ==
    /\ run_i' = run_i + 1
    /\ run_pc' = "loop"

\* display.connect(opts.display_name); main returns 1 when it fails
RunnerConnect ==
    /\ run_pc = "connect"
    /\ \E opened \in BOOLEAN :
        LET r == connect(display, opened)
        IN  /\ display' = r.display
            /\ IF r.ret
               THEN run_pc' = "loop" /\ exit_code' = exit_code
               ELSE run_pc' = "exit" /\ exit_code' = 1
    /\ UNCHANGED <<opts, run_i, passed, failed, skipped, test_passed, ref_found,
                   ref_file, fail_file, diff_file, captured, reference, run_result,
                   compared, verdict, acquired>>
    /\ UNCHANGED <<cmpVars, objVars, capVars, sizeVars>>

\* a registered test the filter does not match is skipped
RunnerSkip ==
    /\ run_pc = "loop" /\ run_i <= Len(Tests)
    /\ ~ matches_filter(Test.registered, opts.filter)
    /\ skipped' = skipped + 1
    /\ verdict' = "skipped"
    /\ ref_found' = NoFile /\ ref_file' = NoFile
    /\ fail_file' = NoFile /\ diff_file' = NoFile
    /\ acquired' = "none"
    /\ test_passed' = FALSE
    /\ captured' = EmptyImage /\ reference' = EmptyImage
    /\ run_result' = CompareResult /\ compared' = FALSE
    /\ NextIteration
    /\ UNCHANGED <<opts, passed, failed, exit_code, display>>
    /\ UNCHANGED <<cmpVars, objVars, capVars, sizeVars>>

\* the test is created and its ref_path formed; the file found there is any
\* of RefFiles; display.destroy_window() then display.create_window(...)
RunnerCreateWindow ==
    /\ run_pc = "loop" /\ run_i <= Len(Tests)
    /\ matches_filter(Test.registered, opts.filter)
    /\ ref_found' \in RefFiles
    /\ ref_file' = ref_found'
    /\ fail_file' = NoFile /\ diff_file' = NoFile
    /\ acquired' = "none"
    /\ test_passed' = FALSE
    /\ captured' = EmptyImage /\ reference' = EmptyImage
    /\ run_result' = CompareResult /\ compared' = FALSE
    /\ \E outcome \in CreateOutcomes :
        LET r == create_window(destroy_window(display), Test.width, Test.height, outcome)
        IN  /\ display' = r.display
            /\ IF r.ret
               THEN /\ run_pc' = "render" /\ verdict' = "none"
                    /\ UNCHANGED <<run_i, failed>>
               ELSE /\ failed' = failed + 1 /\ verdict' = "error_window"
                    /\ NextIteration
    /\ UNCHANGED <<opts, passed, skipped, exit_code>>
    /\ UNCHANGED <<cmpVars, objVars, capVars, sizeVars>>

\* show_window, wait_for_expose, test->render and the syncs; a self-verifying
\* test's render sets its test_passed_ either way
RunnerRender ==
    /\ run_pc = "render"
    /\ test_passed' \in (IF is_self_verifying(Test) THEN BOOLEAN ELSE {FALSE})
    /\ run_pc' = "capture"
    /\ UNCHANGED <<opts, run_i, passed, failed, skipped, exit_code, display, ref_found,
                   ref_file, fail_file, diff_file, captured, reference, run_result,
                   compared, verdict, acquired>>
    /\ UNCHANGED <<cmpVars, objVars, capVars, sizeVars>>

\* an acquisition that raises no error when XGetImage returns null
acquisition_fails_without_window(d, got) ==
    ~ is_connected(d) \/ ~ has_window(d)

\* Capture::capture_window and capture_region up to the normalizer: they throw
\* without a connection or a window, and when XGetImage returns null
acquisition_fails(d, got) ==
    ~ is_connected(d) \/ ~ has_window(d) \/ ~ got

\* Capture::capture_window as far as XGetImage: a failed acquisition throws,
\* main catches it, counts the test as failed and continues with the next test
RunnerCapture ==
    /\ run_pc = "capture"
    /\ \E got \in BOOLEAN :
        /\ acquired' = IF ~ is_connected(display) \/ ~ has_window(display)
                       THEN "no_window"
                       ELSE IF got THEN "frame" ELSE "null"
        /\ IF acquisition_fails(display, got)
           THEN /\ failed' = failed + 1 /\ verdict' = "error_capture"
                /\ NextIteration
           ELSE /\ run_pc' = "normalize"
                /\ UNCHANGED <<run_i, failed, verdict>>
    /\ UNCHANGED <<opts, passed, skipped, exit_code, display, test_passed, ref_found,
                   ref_file, fail_file, diff_file, captured, reference, run_result,
                   compared>>
    /\ UNCHANGED <<cmpVars, objVars, capVars, sizeVars>>

\* the rest of capture_region: ximage_to_image(ximg), XDestroyImage, and the
\* result assigned to captured; the normalized frame has the size the Display
\* recorded for its window
RunnerNormalize ==
    /\ run_pc = "normalize"
    /\ captured' \in ImagesOfSize(display.width_, display.height_)
    /\ run_pc' = "reference"
    /\ UNCHANGED <<opts, run_i, passed, failed, skipped, exit_code, display, test_passed,
                   ref_found, ref_file, fail_file, diff_file, reference, run_result,
                   compared, verdict, acquired>>
    /\ UNCHANGED <<cmpVars, objVars, capVars, sizeVars>>

\* a condition under which every pass writes the reference
needs_generate_always(regenerate, exists) == TRUE

\* opts.regenerate || !fs::exists(ref_path)
needs_generate(regenerate, exists) == regenerate \/ ~ exists

\* the reference is generated or regenerated: captured.save_png(ref_path)
RunnerGenerate ==
    /\ run_pc = "reference"
    /\ needs_generate(opts.regenerate, ref_file.exists)
    /\ \E outcome \in SaveOutcomes, rows \in 0..MaxDim :
        /\ outcome # "png_error" => rows = 0
        /\ rows < captured.height
        /\ LET r == save_png(captured, ref_file, outcome, rows)
           IN  /\ ref_file' = r.file
               /\ IF r.ret
                  THEN passed' = passed + 1 /\ failed' = failed /\ verdict' = "generated"
                  ELSE failed' = failed + 1 /\ passed' = passed /\ verdict' = "error_save"
    /\ NextIteration
    /\ UNCHANGED <<opts, skipped, exit_code, display, test_passed, ref_found, fail_file,
                   diff_file, captured, reference, run_result, compared, acquired>>
    /\ UNCHANGED <<cmpVars, objVars, capVars, sizeVars>>

\* a selection that takes the percentage policy at a percentage of 0 as well
compare_selected_geq(test, ref, cap) ==
    IF test.allowed_diff_percent >= 0
    THEN fuzzy_percent(ref, cap, test.allowed_diff_percent)
    ELSE fuzzy(ref, cap, test.tolerance)

\* the comparison main selects: fuzzy_percent when the test allows a percentage,
\* fuzzy at the test's tolerance otherwise
compare_selected(test, ref, cap) ==
    IF test.allowed_diff_percent > 0
    THEN fuzzy_percent(ref, cap, test.allowed_diff_percent)
    ELSE fuzzy(ref, cap, test.tolerance)

\* the reference exists and is not regenerated: reference.load_png(ref_path),
\* then the comparison and its verdict; a failed comparison under
\* opts.save_failures saves the capture at fail_path and the diff image at
\* diff_path, neither of which is the ref_path, and ignores what save_png returns
RunnerCompare ==
    /\ run_pc = "reference"
    /\ ~ needs_generate(opts.regenerate, ref_file.exists)
    /\ \E outcome \in LoadOutcomesOf(ref_file), rows \in 0..MaxDim :
        /\ outcome # "read_image" => rows = 0
        /\ rows < ref_file.height
        /\ LET l == load_png(EmptyImage, ref_file, outcome, rows)
               result == compare_selected(Test, l.image, captured)
               diff == generate_diff(l.image, captured, Test.tolerance)
           IN  /\ reference' = l.image
               /\ IF ~ l.ret
                  THEN /\ failed' = failed + 1 /\ verdict' = "error_load"
                       /\ UNCHANGED <<passed, run_result, compared, fail_file, diff_file>>
                  ELSE /\ run_result' = result
                       /\ compared' = TRUE
                       /\ IF result.match
                          THEN /\ passed' = passed + 1 /\ failed' = failed
                               /\ verdict' = "pass"
                               /\ UNCHANGED <<fail_file, diff_file>>
                          ELSE /\ failed' = failed + 1 /\ passed' = passed
                               /\ verdict' = "fail"
                               /\ IF opts.save_failures
                                  THEN \E saved \in SaveOutcomes \X SaveOutcomes,
                                          cut \in (0..MaxDim) \X (0..MaxDim) :
                                        /\ saved[1] # "png_error" => cut[1] = 0
                                        /\ saved[2] # "png_error" => cut[2] = 0
                                        /\ cut[1] <= captured.height
                                        /\ cut[2] <= diff.height
                                        /\ fail_file' =
                                             save_png(captured, fail_file, saved[1],
                                                      cut[1]).file
                                        /\ diff_file' =
                                             save_png(diff, diff_file, saved[2],
                                                      cut[2]).file
                                  ELSE UNCHANGED <<fail_file, diff_file>>
    /\ NextIteration
    /\ UNCHANGED <<opts, skipped, exit_code, display, test_passed, ref_found, ref_file,
                   captured, acquired>>
    /\ UNCHANGED <<cmpVars, objVars, capVars, sizeVars>>

\* an exit code of 0 whatever failed
exit_status_zero(failures) == 0

\* return failed > 0 ? 1 : 0
exit_status(failures) == IF failures > 0 THEN 1 ELSE 0

\* after the loop: destroy_window, disconnect, the summary and the exit code
RunnerSummary ==
    /\ run_pc = "loop" /\ run_i > Len(Tests)
    /\ display' = disconnect(destroy_window(display))
    /\ exit_code' = exit_status(failed)
    /\ run_pc' = "exit"
    /\ UNCHANGED <<opts, run_i, passed, failed, skipped, test_passed, ref_found,
                   ref_file, fail_file, diff_file, captured, reference, run_result,
                   compared, verdict, acquired>>
    /\ UNCHANGED <<cmpVars, objVars, capVars, sizeVars>>

Next ==
    \/ RunnerConnect
    \/ RunnerSkip
    \/ RunnerCreateWindow
    \/ RunnerRender
    \/ RunnerCapture
    \/ RunnerNormalize
    \/ RunnerGenerate
    \/ RunnerCompare
    \/ RunnerSummary

Spec == Init /\ [][Next]_vars

-----------------------------------------------------------------------------
(* SpecSize: the uint32_t arithmetic on the sizes and coordinates of an Image *)

\* the widths and heights Image(width, height) is given: the small ones, and
\* those around the square root of 2^WordBits / 4 and of 2^WordBits, where
\* width * height * 4 and width * height come to 2^WordBits
Sides ==
    (0..MaxDim)
    \cup { 2^((WordBits \div 2) - 1) + k : k \in 0..1 }
    \cup { 2^(WordBits \div 2) + k : k \in 0..1 }

\* the coordinates looked at along one side: the first ones and the last
Along(side) == { c \in (0..MaxDim) \cup {side - 1} : c < side }

\* result.total_pixels = img1.width() * img1.height(), in uint32_t
total_pixels_of(img1) == (img1.width * img1.height) % U32

SizeInit ==
    /\ ObjectsIdle
    /\ CompareIdle
    /\ RunnerIdle
    /\ CaptureIdle
    /\ SizeIdle

\* Image(width, height)
SizeConstruct ==
    /\ \E width \in Sides, height \in Sides : sz_image' = Image(width, height)
    /\ sz_at' = <<0, 0>> /\ sz_offset' = -1 /\ sz_total' = -1
    /\ UNCHANGED <<cmpVars, objVars, runVars, capVars>>

\* get_pixel(x, y) / set_pixel(x, y, ...) at coordinates in range, as far as
\* the offset they index data_ with
SizeOffset ==
    /\ \E x \in Along(sz_image.width), y \in Along(sz_image.height) :
        /\ sz_at' = <<x, y>>
        /\ sz_offset' = offset(sz_image, x, y)
    /\ UNCHANGED <<sz_image, sz_total>>
    /\ UNCHANGED <<cmpVars, objVars, runVars, capVars>>

\* fuzzy(img, img, tolerance) as far as result.total_pixels: past the checks
\* of the dimensions and of empty()
SizeTotalPixels ==
    /\ ~ empty(sz_image)
    /\ sz_total' = total_pixels_of(sz_image)
    /\ UNCHANGED <<sz_image, sz_at, sz_offset>>
    /\ UNCHANGED <<cmpVars, objVars, runVars, capVars>>

SizeNext ==
    \/ SizeConstruct
    \/ SizeOffset
    \/ SizeTotalPixels

SpecSize == SizeInit /\ [][SizeNext]_vars

-----------------------------------------------------------------------------
(* SpecDisplay: one Display under its public operations, in any order *)

\* the sizes create_window is asked for
WindowSizes == (1..MaxDim) \X (1..MaxDim)

DisplayInit ==
    /\ ObjectsIdle
    /\ CompareIdle
    /\ CaptureIdle
    /\ SizeIdle
    /\ RunnerIdle

\* connect(display_name): XOpenDisplay succeeds or fails
DisplayConnect ==
    /\ \E opened \in BOOLEAN : display' = connect(display, opened).display
    /\ UNCHANGED <<opts, run_pc, run_i, passed, failed, skipped, exit_code,
                   test_passed, ref_found, ref_file, fail_file, diff_file, captured,
                   reference, run_result, compared, verdict, acquired>>
    /\ UNCHANGED <<cmpVars, objVars, capVars, sizeVars>>

DisplayDisconnect ==
    /\ display' = disconnect(display)
    /\ UNCHANGED <<opts, run_pc, run_i, passed, failed, skipped, exit_code,
                   test_passed, ref_found, ref_file, fail_file, diff_file, captured,
                   reference, run_result, compared, verdict, acquired>>
    /\ UNCHANGED <<cmpVars, objVars, capVars, sizeVars>>

\* create_window(width, height, title), the server answering in any way; the
\* server hands out no more than MaxWindows window IDs
DisplayCreateWindow ==
    /\ display.x_last < MaxWindows
    /\ \E size \in WindowSizes, outcome \in CreateOutcomes :
        display' = create_window(display, size[1], size[2], outcome).display
    /\ UNCHANGED <<opts, run_pc, run_i, passed, failed, skipped, exit_code,
                   test_passed, ref_found, ref_file, fail_file, diff_file, captured,
                   reference, run_result, compared, verdict, acquired>>
    /\ UNCHANGED <<cmpVars, objVars, capVars, sizeVars>>

DisplayDestroyWindow ==
    /\ display' = destroy_window(display)
    /\ UNCHANGED <<opts, run_pc, run_i, passed, failed, skipped, exit_code,
                   test_passed, ref_found, ref_file, fail_file, diff_file, captured,
                   reference, run_result, compared, verdict, acquired>>
    /\ UNCHANGED <<cmpVars, objVars, capVars, sizeVars>>

DisplayNext ==
    \/ DisplayConnect
    \/ DisplayDisconnect
    \/ DisplayCreateWindow
    \/ DisplayDestroyWindow

SpecDisplay == DisplayInit /\ [][DisplayNext]_vars

-----------------------------------------------------------------------------
(* SpecCapture: one call of extract_channel or of ximage_to_image *)

\* the pixels and the masks handed to extract_channel: every word of MaskBits
\* bits, the masks with gaps between their set bits included
Words == 0..(2^MaskBits - 1)

\* the same words in the highest MaskBits bits of an unsigned long
HighWords == { w * 2^(LongBits - MaskBits) : w \in Words }

\* The pixel formats of the frames: width, height and pixels aside, what an
\* XImage says of its format.
\*   32 bits per pixel, depth 24, 8 bits each of red, green, blue
\*   16 bits per pixel, depth 16, 5-6-5
\*   16 bits per pixel, depth 32, 4 bits each: the alpha mask is the top 4 bits
\*   16 bits per pixel, depth 32, 1 bit each: the alpha mask is 13 bits wide
\*   24 bits per pixel, depth 32, 8 bits each: no bit is left for alpha
\*    8 bits per pixel, depth 8, no channel mask at all
\* The formats of depth 32 are 16 bits wide where a server's are 32, the
\* integers here ending at 2^31 - 1.
Formats ==
    { [depth |-> 24, bits_per_pixel |-> 32,
       red_mask |-> 16711680, green_mask |-> 65280, blue_mask |-> 255],
      [depth |-> 16, bits_per_pixel |-> 16,
       red_mask |-> 63488, green_mask |-> 2016, blue_mask |-> 31],
      [depth |-> 32, bits_per_pixel |-> 16,
       red_mask |-> 3840, green_mask |-> 240, blue_mask |-> 15],
      [depth |-> 32, bits_per_pixel |-> 16,
       red_mask |-> 4, green_mask |-> 2, blue_mask |-> 1],
      [depth |-> 32, bits_per_pixel |-> 24,
       red_mask |-> 16711680, green_mask |-> 65280, blue_mask |-> 255],
      [depth |-> 8, bits_per_pixel |-> 8,
       red_mask |-> 0, green_mask |-> 0, blue_mask |-> 0] }

\* the lowest set bit of a mask, 0 for no mask
lowest_bit(mask) == IF mask = 0 THEN 0 ELSE 2^mask_shift(mask, 0)

\* the pixel values a frame of format f holds: none, each channel alone at its
\* full value, the alpha bits alone, every bit set, red with the alpha bits, the
\* lowest alpha bit alone, red with the lowest bit of green
PixelSamples(f) ==
    { 0, f.red_mask, f.green_mask, f.blue_mask, alpha_mask_of(f),
      f.red_mask + f.green_mask + f.blue_mask + alpha_mask_of(f),
      f.red_mask + alpha_mask_of(f),
      lowest_bit(alpha_mask_of(f)), f.red_mask + lowest_bit(f.green_mask) }

FrameDims == { d \in (0..MaxDim) \X (0..MaxDim) : d[1] * d[2] <= FrameMaxPixels }

\* the frames of size d and format f
FramesOf(d, f) ==
    { XImage(d[1], d[2], f.depth, f.bits_per_pixel, f.red_mask, f.green_mask,
             f.blue_mask, pixels) : pixels \in [1..(d[1] * d[2]) -> PixelSamples(f)] }

Frames == UNION { FramesOf(d, f) : d \in FrameDims, f \in Formats }

CaptureInit ==
    /\ ObjectsIdle
    /\ CompareIdle
    /\ RunnerIdle
    /\ SizeIdle
    /\ cap_channel = 0 /\ cap_image = EmptyImage /\ cap_reads = 0
    /\ cap_work = [shift |-> 0, turns |-> 0]
    /\ \/ /\ cap_pc = "extract_channel"
          /\ cap_pixel \in Words \cup HighWords /\ cap_mask \in Words \cup HighWords
          /\ cap_ximg = NullXImage
       \/ /\ cap_pc = "ximage_to_image"
          /\ cap_pixel = 0 /\ cap_mask = 0
          /\ cap_ximg \in Frames \cup {NullXImage}

DoExtractChannel ==
    /\ cap_pc = "extract_channel"
    /\ cap_channel' = extract_channel(cap_pixel, cap_mask)
    /\ cap_work' = extract_work(cap_mask)
    /\ cap_pc' = "extract_channel returned"
    /\ UNCHANGED <<cap_pixel, cap_mask, cap_ximg, cap_image, cap_reads>>
    /\ UNCHANGED <<cmpVars, objVars, runVars, sizeVars>>

DoXimageToImage ==
    /\ cap_pc = "ximage_to_image"
    /\ LET r == ximage_to_image(cap_ximg)
       IN  cap_image' = r.image /\ cap_reads' = r.reads
    /\ cap_pc' = "ximage_to_image returned"
    /\ UNCHANGED <<cap_pixel, cap_mask, cap_channel, cap_ximg, cap_work>>
    /\ UNCHANGED <<cmpVars, objVars, runVars, sizeVars>>

CaptureNext == DoExtractChannel \/ DoXimageToImage

SpecCapture == CaptureInit /\ [][CaptureNext]_vars

-----------------------------------------------------------------------------
(* What the comparison claims speak of, read off the two buffers directly *)

SameSize(a, b) == a.width = b.width /\ a.height = b.height

Positions(a) == (0..(a.width - 1)) \X (0..(a.height - 1))

\* the byte of channel c (0..3) of the pixel at pos, in a row-major RGBA buffer
ByteAt(a, pos, c) == a.data[(pos[2] * a.width + pos[1]) * 4 + c + 1]

AbsDiff(x, y) == IF x >= y THEN x - y ELSE y - x

\* the largest absolute difference among the four channels at pos
MaxDiffAt(a, b, pos) ==
    CHOOSE m \in { AbsDiff(ByteAt(a, pos, c), ByteAt(b, pos, c)) : c \in 0..3 } :
        \A c \in 0..3 : AbsDiff(ByteAt(a, pos, c), ByteAt(b, pos, c)) <= m

\* the positions whose largest channel difference strictly exceeds t
Over(a, b, t) == { pos \in Positions(a) : MaxDiffAt(a, b, pos) > t }

\* the positions where the two pixels are not identical
NonIdentical(a, b) ==
    { pos \in Positions(a) : \E c \in 0..3 : ByteAt(a, pos, c) # ByteAt(b, pos, c) }

Comparable == SameSize(cmp_a, cmp_b) /\ ~ empty(cmp_a) /\ ~ empty(cmp_b)

-----------------------------------------------------------------------------
(* Claims about Compare, under SpecCompare *)

\* C1: for non-empty images of equal dimensions, fuzzy's different_pixels is the
\* number of positions whose largest channel difference over R, G, B, A is
\* strictly greater than the tolerance, and match is true iff that number is 0.
C1_FuzzyCountsOverTolerance ==
    (cmp_op = "fuzzy" /\ Comparable) =>
        /\ cmp_result.different_pixels = Cardinality(Over(cmp_a, cmp_b, cmp_arg))
        /\ cmp_result.match = (Cardinality(Over(cmp_a, cmp_b, cmp_arg)) = 0)

\* fuzzy at tolerance 2 on two 2x2 images found some, but not all, pixels different
C1_Witness ==
    /\ cmp_op = "fuzzy" /\ cmp_arg = 2
    /\ cmp_a.width = 2 /\ cmp_a.height = 2 /\ Comparable
    /\ cmp_result.different_pixels \in 1..3
    /\ ~ cmp_result.match

\* C3 (as stated): for non-empty images of equal dimensions, fuzzy_percent's
\* different_pixels is the number of non-identical positions, and match is true
\* iff 100 * different_pixels / total_pixels is at most the threshold.
C3_PercentCountsNonIdentical ==
    (cmp_op = "fuzzy_percent" /\ Comparable) =>
        LET n == Cardinality(NonIdentical(cmp_a, cmp_b))
            total == cmp_a.width * cmp_a.height
        IN  /\ cmp_result.different_pixels = n
            /\ cmp_result.match = (100 * n <= cmp_arg * total)

\* C6 (as stated): fuzzy(a, a, t) matches with no different pixel for t >= 0, and
\* when at least one image is empty, match is true iff both are empty.
C6_ReflexiveAndEmptyUnconditional ==
    cmp_op = "fuzzy" =>
        /\ (cmp_a = cmp_b /\ cmp_arg >= 0) =>
               (cmp_result.match /\ cmp_result.different_pixels = 0)
        /\ (empty(cmp_a) \/ empty(cmp_b)) =>
               (cmp_result.match = (empty(cmp_a) /\ empty(cmp_b)))

\* C6 (amended): fuzzy(a, a, t) matches with no different pixel for t >= 0, and
\* when at least one image is empty, match is true iff both are empty and the
\* two have the same dimensions.
C6_ReflexiveAndEmpty ==
    cmp_op = "fuzzy" =>
        /\ (cmp_a = cmp_b /\ cmp_arg >= 0) =>
               (cmp_result.match /\ cmp_result.different_pixels = 0)
        /\ (empty(cmp_a) \/ empty(cmp_b)) =>
               (cmp_result.match =
                   (empty(cmp_a) /\ empty(cmp_b) /\ SameSize(cmp_a, cmp_b)))

\* fuzzy compared a non-empty 2x2 image with itself at tolerance 0
C6_Witness ==
    /\ cmp_op = "fuzzy" /\ cmp_arg = 0
    /\ cmp_a = cmp_b /\ cmp_a.width = 2 /\ cmp_a.height = 2
    /\ cmp_result.match

\* C7: for fixed images, fuzzy's different_pixels does not increase when the
\* tolerance increases: from one fuzzy result to the next on the same images,
\* a tolerance at least as large gives a count at most as large, and a match
\* stays a match.
C7_Monotone ==
    [][ (cmp_op = "fuzzy" /\ cmp_op' = "fuzzy" /\ cmp_arg <= cmp_arg') =>
            /\ cmp_result'.different_pixels <= cmp_result.different_pixels
            /\ (cmp_result.match => cmp_result'.match) ]_vars

\* fuzzy at tolerance 3 matched two images that are not identical
C7_Witness ==
    /\ cmp_op = "fuzzy" /\ cmp_arg = 3 /\ Comparable
    /\ NonIdentical(cmp_a, cmp_b) # {}
    /\ cmp_result.different_pixels = 0
    /\ cmp_result.match

\* C9: fuzzy_percent at threshold 100 matches any two images of equal
\* dimensions, and every result's difference_percent lies between 0 and 100.
C9_HundredPercentMatches ==
    /\ (cmp_op = "fuzzy_percent" /\ cmp_arg = 100 /\ SameSize(cmp_a, cmp_b)) =>
           cmp_result.match
    /\ cmp_op # "none" =>
           /\ cmp_result.difference_percent.den > 0
           /\ 0 <= cmp_result.difference_percent.num
           /\ cmp_result.difference_percent.num
                  <= 100 * cmp_result.difference_percent.den

\* fuzzy_percent at threshold 100 matched two non-identical 2x2 images
C9_Witness ==
    /\ cmp_op = "fuzzy_percent" /\ cmp_arg = 100 /\ Comparable
    /\ cmp_a.width = 2 /\ cmp_a.height = 2
    /\ Cardinality(NonIdentical(cmp_a, cmp_b)) = 4
    /\ cmp_result.match

\* C10: when the dimensions differ, fuzzy returns match = false with a non-empty
\* message and has examined no pixel: total_pixels, different_pixels,
\* difference_percent, max_channel_diff and avg_channel_diff are all 0.
C10_MismatchReturnsAtOnce ==
    (cmp_op = "fuzzy" /\ ~ SameSize(cmp_a, cmp_b)) =>
        /\ ~ cmp_result.match
        /\ cmp_result.message # ""
        /\ cmp_result.total_pixels = 0
        /\ cmp_result.different_pixels = 0
        /\ cmp_result.difference_percent.num = 0
        /\ cmp_result.max_channel_diff = 0
        /\ cmp_result.avg_channel_diff.num = 0

\* fuzzy was handed a 2x1 and a 1x2 image, both non-empty
C10_Witness ==
    /\ cmp_op = "fuzzy"
    /\ cmp_a.width = 2 /\ cmp_a.height = 1
    /\ cmp_b.width = 1 /\ cmp_b.height = 2
    /\ cmp_result.message = "Dimension mismatch"

\* the sum of the absolute differences of the first n bytes of the two buffers
RECURSIVE SumDiffs(_, _, _)
SumDiffs(a, b, n) ==
    IF n = 0 THEN 0 ELSE AbsDiff(a.data[n], b.data[n]) + SumDiffs(a, b, n - 1)

\* the largest absolute difference over every pixel and every channel
LargestDiff(a, b) ==
    CHOOSE m \in { MaxDiffAt(a, b, pos) : pos \in Positions(a) } :
        \A pos \in Positions(a) : MaxDiffAt(a, b, pos) <= m

\* C11: for non-empty images of equal dimensions, fuzzy's max_channel_diff is the
\* largest absolute channel difference over all pixels and all four channels,
\* its avg_channel_diff is the sum of all channel differences divided by
\* 4 * width * height, and both are the same at every tolerance.
C11_ChannelStatistics ==
    (cmp_op = "fuzzy" /\ Comparable) =>
        /\ cmp_result.max_channel_diff = LargestDiff(cmp_a, cmp_b)
        /\ cmp_result.avg_channel_diff.den > 0
        /\ cmp_result.avg_channel_diff.num * (4 * cmp_a.width * cmp_a.height)
               = SumDiffs(cmp_a, cmp_b, Len(cmp_a.data)) * cmp_result.avg_channel_diff.den
        /\ \A t \in Tolerances :
               /\ fuzzy(cmp_a, cmp_b, t).max_channel_diff = cmp_result.max_channel_diff
               /\ fuzzy(cmp_a, cmp_b, t).avg_channel_diff = cmp_result.avg_channel_diff

\* fuzzy at tolerance 255 counted no pixel of two 2x2 images as different, yet
\* reported their largest channel difference, 3, and a non-zero average
C11_Witness ==
    /\ cmp_op = "fuzzy" /\ cmp_arg = 255 /\ Comparable
    /\ cmp_a.width = 2 /\ cmp_a.height = 2
    /\ cmp_result.different_pixels = 0
    /\ cmp_result.max_channel_diff = 3
    /\ cmp_result.avg_channel_diff.num > 0

\* every order in which the positions of a set can be visited
RECURSIVE Orders(_)
Orders(S) ==
    IF S = {} THEN {<<>>}
    ELSE UNION { { <<pos>> \o rest : rest \in Orders(S \ {pos}) } : pos \in S }

\* a worker with nothing visited
NothingVisited ==
    [different_pixels |-> 0, max_channel_diff |-> 0, total_diff |-> 0,
     channel_count |-> 0]

\* the loop body of fuzzy applied along an order of positions
RECURSIVE Visit(_, _)
Visit(order, acc) ==
    IF order = <<>> THEN acc
    ELSE Visit(Tail(order),
               fuzzy_pixel(cmp_a, cmp_b, cmp_arg, Head(order)[1], Head(order)[2], acc))

\* the partial results of two workers combined: counts and sums added, the
\* larger of the two maxima
Combined(p, q) ==
    [different_pixels |-> p.different_pixels + q.different_pixels,
     max_channel_diff |-> IF p.max_channel_diff >= q.max_channel_diff
                          THEN p.max_channel_diff ELSE q.max_channel_diff,
     total_diff |-> p.total_diff + q.total_diff,
     channel_count |-> p.channel_count + q.channel_count]

\* a reduction agrees with what fuzzy returned
AgreesWithFuzzy(acc) ==
    /\ cmp_result.different_pixels = acc.different_pixels
    /\ cmp_result.match = (acc.different_pixels = 0)
    /\ cmp_result.max_channel_diff = acc.max_channel_diff
    /\ 4 * cmp_result.total_pixels = acc.channel_count
    /\ cmp_result.avg_channel_diff = Rat(acc.total_diff, acc.channel_count)

\* C23: fuzzy is an order-independent reduction: the loop body applied to the
\* positions in any order, or to any two parts of them by two workers (each
\* in any order) whose partial results are then combined, gives the match,
\* different_pixels, total_pixels, max_channel_diff and sum of channel
\* differences that the row-major loop of fuzzy returned.
C23_OrderIndependent ==
    (cmp_op = "fuzzy" /\ Comparable) =>
        /\ \A order \in Orders(Positions(cmp_a)) :
               AgreesWithFuzzy(Visit(order, NothingVisited))
        /\ \A part \in SUBSET Positions(cmp_a) :
               \A mine \in Orders(part), yours \in Orders(Positions(cmp_a) \ part) :
                   AgreesWithFuzzy(Combined(Visit(mine, NothingVisited),
                                            Visit(yours, NothingVisited)))

\* the four bytes of the pixel at a position
BytesAt(a, pos) == [c \in 0..3 |-> ByteAt(a, pos, c)]

\* fuzzy has compared two images of four pixels, some within the tolerance
\* and some not, whose largest differences are not the same at every position
C23_Witness ==
    /\ cmp_op = "fuzzy" /\ cmp_arg = 2 /\ Comparable
    /\ Cardinality(Positions(cmp_a)) = 4
    /\ cmp_result.different_pixels = 2
    /\ cmp_result.max_channel_diff = 3
    /\ BytesAt(cmp_a, <<0, 0>>) = BytesAt(cmp_b, <<0, 0>>)

-----------------------------------------------------------------------------
(* Claims about Compare::generate_diff, under SpecCompare *)

\* the pixel of an image at a position inside it
PixelAt(a, pos) ==
    Pixel(ByteAt(a, pos, 0), ByteAt(a, pos, 1), ByteAt(a, pos, 2), ByteAt(a, pos, 3))

Inside(a, pos) == pos[1] < a.width /\ pos[2] < a.height

\* the larger of two sides
Larger(m, n) == IF m >= n THEN m ELSE n

\* generate_diff returned the diff of cmp_a and cmp_b at tolerance cmp_arg
Diffed == cmp_op = "generate_diff"

\* C16 (as stated): for every pair of images, those with a zero width or height
\* included, generate_diff returns an image as wide as the wider and as high as
\* the higher of the two.
C16_CanvasIsMaxAlways ==
    Diffed =>
        /\ cmp_diff.width = Larger(cmp_a.width, cmp_b.width)
        /\ cmp_diff.height = Larger(cmp_a.height, cmp_b.height)

\* C16 (amended): when the larger width and the larger height are both
\* non-zero, generate_diff returns an image of that width and height (one of
\* the images may still be empty); when either is zero it returns the default
\* image, 0 wide and 0 high.
C16_CanvasIsMax ==
    Diffed =>
        IF Larger(cmp_a.width, cmp_b.width) # 0 /\ Larger(cmp_a.height, cmp_b.height) # 0
        THEN /\ cmp_diff.width = Larger(cmp_a.width, cmp_b.width)
             /\ cmp_diff.height = Larger(cmp_a.height, cmp_b.height)
             /\ Len(cmp_diff.data) = cmp_diff.width * cmp_diff.height * 4
        ELSE cmp_diff = EmptyImage

\* the diff of a 2x1 image and an image 0 wide and 2 high is 2 wide and 2 high
C16_Witness ==
    /\ Diffed
    /\ cmp_a.width = 2 /\ cmp_a.height = 1
    /\ cmp_b.width = 0 /\ cmp_b.height = 2
    /\ cmp_diff.width = 2 /\ cmp_diff.height = 2

\* C17: in the diff image, a coordinate outside A but inside B is (0,255,0,255),
\* one inside A but outside B is (0,0,255,255), and one outside both is
\* (0,0,0,255).
C17_Sentinels ==
    Diffed =>
        \A pos \in Positions(cmp_diff) :
            /\ (~ Inside(cmp_a, pos) /\ Inside(cmp_b, pos)) =>
                   PixelAt(cmp_diff, pos) = Pixel(0, 255, 0, 255)
            /\ (Inside(cmp_a, pos) /\ ~ Inside(cmp_b, pos)) =>
                   PixelAt(cmp_diff, pos) = Pixel(0, 0, 255, 255)
            /\ (~ Inside(cmp_a, pos) /\ ~ Inside(cmp_b, pos)) =>
                   PixelAt(cmp_diff, pos) = Pixel(0, 0, 0, 255)

\* the diff of a 2x1 and a 1x2 image: blue at (1,0), green at (0,1), black at (1,1)
C17_Witness ==
    /\ Diffed
    /\ cmp_a.width = 2 /\ cmp_a.height = 1
    /\ cmp_b.width = 1 /\ cmp_b.height = 2
    /\ PixelAt(cmp_diff, <<1, 0>>) = Pixel(0, 0, 255, 255)
    /\ PixelAt(cmp_diff, <<0, 1>>) = Pixel(0, 255, 0, 255)
    /\ PixelAt(cmp_diff, <<1, 1>>) = Pixel(0, 0, 0, 255)

\* every pixel of the image is opaque red
AllRed(a) == \A pos \in Positions(a) : PixelAt(a, pos) = Pixel(255, 0, 0, 255)

\* C18: at every coordinate present in both images whose largest channel
\* difference does not exceed the tolerance, the diff pixel is A's with each
\* colour channel halved, rounded down, and alpha 255; the diff of two identical
\* opaque-red images at tolerance 0 is (127,0,0,255) at every pixel.
C18_MatchingDarkened ==
    Diffed =>
        /\ \A pos \in Positions(cmp_diff) :
               (Inside(cmp_a, pos) /\ Inside(cmp_b, pos)
                   /\ MaxDiffAt(cmp_a, cmp_b, pos) <= cmp_arg) =>
                   PixelAt(cmp_diff, pos) =
                       Pixel(PixelAt(cmp_a, pos).r \div 2, PixelAt(cmp_a, pos).g \div 2,
                             PixelAt(cmp_a, pos).b \div 2, 255)
        /\ (cmp_a = cmp_b /\ ~ empty(cmp_a) /\ AllRed(cmp_a) /\ cmp_arg = 0) =>
               (/\ SameSize(cmp_diff, cmp_a)
                /\ \A pos \in Positions(cmp_diff) :
                       PixelAt(cmp_diff, pos) = Pixel(127, 0, 0, 255))

\* the diff of two identical 2x2 opaque-red images at tolerance 0: four pixels,
\* the first of them (127,0,0,255)
C18_Witness ==
    /\ Diffed /\ cmp_arg = 0
    /\ cmp_a = cmp_b /\ AllRed(cmp_a)
    /\ cmp_a.width = 2 /\ cmp_a.height = 2
    /\ Len(cmp_diff.data) = 16
    /\ PixelAt(cmp_diff, <<0, 0>>) = Pixel(127, 0, 0, 255)

\* twice d, at most 255
Intensity(d) == IF 2 * d >= 255 THEN 255 ELSE 2 * d

\* C19: at every coordinate present in both images whose largest channel
\* difference d exceeds the tolerance, the diff pixel has R = 255, A = 255 and
\* G = B = 255 - min(255, 2 * d), all within 0..255; the tint never weakens as
\* d grows: no smaller difference in 1..255 is highlighted with a smaller G or B.
C19_Highlight ==
    Diffed =>
        \A pos \in Positions(cmp_diff) :
            (Inside(cmp_a, pos) /\ Inside(cmp_b, pos)
                /\ MaxDiffAt(cmp_a, cmp_b, pos) > cmp_arg) =>
                LET d == MaxDiffAt(cmp_a, cmp_b, pos)
                    p == PixelAt(cmp_diff, pos)
                IN  /\ p = Pixel(255, 255 - Intensity(d), 255 - Intensity(d), 255)
                    /\ p.g \in 0..255 /\ p.b \in 0..255
                    /\ \A e \in 1..ChannelMax :
                           e <= d => (highlight(e).g >= p.g /\ highlight(e).b >= p.b)

\* the diff of gray level 200 and black at tolerance 3: the difference, 200,
\* is past the clamp and the highlight is pure red
C19_Witness ==
    /\ Diffed /\ cmp_arg = 3
    /\ cmp_a = Gray(200) /\ cmp_b = Gray(0)
    /\ PixelAt(cmp_diff, <<0, 0>>) = Pixel(255, 0, 0, 255)

\* the positions of the diff painted as a difference: red at 255, which no
\* halved pixel reaches
Highlighted(diff) == { pos \in Positions(diff) : PixelAt(diff, pos).r = ChannelMax }

\* the pixel of an image at a position, halved and opaque
Halved(a, pos) ==
    Pixel(ByteAt(a, pos, 0) \div 2, ByteAt(a, pos, 1) \div 2, ByteAt(a, pos, 2) \div 2,
          ChannelMax)

\* C28: for two non-empty images of the same dimensions and any tolerance t,
\* generate_diff(a, b, t) highlights as many pixels as fuzzy(a, b, t) counts in
\* different_pixels, and fuzzy(a, b, t).match is true iff the diff has no
\* highlighted pixel, every pixel of it being the halved pixel of a.
C28_DiffAgreesWithFuzzy ==
    (Diffed /\ Comparable) =>
        LET result == fuzzy(cmp_a, cmp_b, cmp_arg)
        IN  /\ Cardinality(Highlighted(cmp_diff)) = result.different_pixels
            /\ result.match <=> Highlighted(cmp_diff) = {}
            /\ result.match <=>
                   \A pos \in Positions(cmp_diff) :
                       PixelAt(cmp_diff, pos) = Halved(cmp_a, pos)

\* a diff of two images of four pixels at tolerance 2 in which two pixels
\* are highlighted and two are not
C28_Witness ==
    /\ Diffed /\ Comparable /\ cmp_arg = 2
    /\ Cardinality(Positions(cmp_diff)) = 4
    /\ Cardinality(Highlighted(cmp_diff)) = 2
    /\ fuzzy(cmp_a, cmp_b, cmp_arg).different_pixels = 2

-----------------------------------------------------------------------------
(* Claims about the normalizer, under SpecCapture *)

\* the positions of the set bits of n
BitsOf(n) == { k \in 0..30 : (n \div (2^k)) % 2 = 1 }

RECURSIVE SumOfPowers(_, _)
SumOfPowers(ks, low) ==
    IF ks = {} THEN 0
    ELSE LET k == CHOOSE j \in ks : TRUE
         IN  2^(k - low) + SumOfPowers(ks \ {k}, low)

\* the position of the lowest set bit of a non-zero mask
LowestOf(mask) == CHOOSE k \in BitsOf(mask) : \A j \in BitsOf(mask) : k <= j

\* the masked value shifted down by the position of the mask's lowest set bit
ValueUnder(pixel, mask) ==
    SumOfPowers(BitsOf(pixel) \cap BitsOf(mask), LowestOf(mask))

\* n / d rounded to the nearest integer
RoundRatio(n, d) == (2 * n + d) \div (2 * d)

\* the set bits of the mask are next to one another
Contiguous(mask) ==
    /\ mask # 0
    /\ \A k \in 0..30 :
           (\E i \in BitsOf(mask) : i <= k) /\ (\E j \in BitsOf(mask) : k <= j)
               => k \in BitsOf(mask)

\* C12 (as stated): extract_channel returns 0 for a zero mask and otherwise
\* round(v * 255 / (2^bits - 1)) clamped to 0..255, bits being the population
\* count of the mask and v the masked value shifted down to bit 0.
C12_RescalesByBitCount ==
    cap_pc = "extract_channel returned" =>
        cap_channel =
            IF cap_mask = 0 THEN 0
            ELSE Min2(255, RoundRatio(ValueUnder(cap_pixel, cap_mask) * 255,
                                      2^Cardinality(BitsOf(cap_mask)) - 1))

\* C12 (amended): extract_channel returns 0 for a zero mask and otherwise
\* round(v * 255 / m), within 0..255, m being the mask shifted down by the
\* position of its lowest set bit; m is 2^bits - 1, and the result the stated
\* one, when the set bits of the mask are contiguous.
C12_RescalesByShiftedMask ==
    cap_pc = "extract_channel returned" =>
        /\ cap_mask = 0 => cap_channel = 0
        /\ cap_mask # 0 =>
               /\ cap_channel = RoundRatio(ValueUnder(cap_pixel, cap_mask) * 255,
                                           cap_mask \div (2^LowestOf(cap_mask)))
               /\ cap_channel \in 0..255
        /\ Contiguous(cap_mask) =>
               cap_channel = Min2(255, RoundRatio(ValueUnder(cap_pixel, cap_mask) * 255,
                                                  2^Cardinality(BitsOf(cap_mask)) - 1))

\* extract_channel was handed the mask 101 (binary) and a pixel with the upper
\* of its two bits set, and returned round(4 * 255 / 5) = 204
C12_Witness ==
    /\ cap_pc = "extract_channel returned"
    /\ cap_mask = 5 /\ cap_pixel = 4
    /\ cap_channel = 204

\* the frame's pixel at position k (from 1) and the normalized pixel there
FramePixel(k) == cap_ximg.pixels[k]

OutPixel(k) ==
    Pixel(cap_image.data[4 * k - 3], cap_image.data[4 * k - 2],
          cap_image.data[4 * k - 1], cap_image.data[4 * k])

\* ximage_to_image returned the normalization of a frame
Normalized == cap_pc = "ximage_to_image returned" /\ ~ cap_ximg.null

\* the bits inside bits_per_pixel that belong to none of red, green, blue
SpareBits(ximg) ==
    { k \in 0..(ximg.bits_per_pixel - 1) :
        k \notin BitsOf(ximg.red_mask) \cup BitsOf(ximg.green_mask) \cup BitsOf(ximg.blue_mask) }

\* the descriptor has an alpha channel
HasAlpha(ximg) == ximg.depth > 24 /\ SpareBits(ximg) # {}

\* the alpha bits of the pixel, rescaled to 0..255
RescaledAlpha(ximg, pixel) ==
    LET low == CHOOSE k \in SpareBits(ximg) : \A j \in SpareBits(ximg) : k <= j
    IN  RoundRatio(SumOfPowers(BitsOf(pixel) \cap SpareBits(ximg), low) * 255,
                   SumOfPowers(SpareBits(ximg), low))

\* C13: the alpha of every normalized pixel is 255 when the descriptor has no
\* alpha channel (depth <= 24, or no non-RGB bit inside bits_per_pixel), 255 when
\* there is an alpha mask and the alpha extracted is 0, and the rescaled alpha
\* otherwise; no normalized pixel has alpha 0.
C13_AlphaNeverZero ==
    Normalized =>
        \A k \in 1..(cap_ximg.width * cap_ximg.height) :
            /\ OutPixel(k).a =
                   IF ~ HasAlpha(cap_ximg) THEN 255
                   ELSE IF RescaledAlpha(cap_ximg, FramePixel(k)) = 0 THEN 255
                   ELSE RescaledAlpha(cap_ximg, FramePixel(k))
            /\ OutPixel(k).a # 0

\* a frame of depth 32 with 4 bits of alpha: its first pixel, alpha bits clear,
\* came out opaque, its second, lowest alpha bit set, with alpha 17
C13_Witness ==
    /\ Normalized
    /\ cap_ximg.depth = 32 /\ cap_ximg.red_mask = 3840
    /\ cap_ximg.width * cap_ximg.height = 2
    /\ FramePixel(1) = 3840 /\ OutPixel(1).a = 255
    /\ FramePixel(2) = 4096 /\ OutPixel(2).a = 17

\* contiguous masks that do not overlap, and no alpha: depth <= 24
PlainFormat(ximg) ==
    /\ ximg.depth <= 24
    /\ Contiguous(ximg.red_mask) /\ Contiguous(ximg.green_mask)
    /\ Contiguous(ximg.blue_mask)
    /\ BitsOf(ximg.red_mask) \cap BitsOf(ximg.green_mask) = {}
    /\ BitsOf(ximg.red_mask) \cap BitsOf(ximg.blue_mask) = {}
    /\ BitsOf(ximg.green_mask) \cap BitsOf(ximg.blue_mask) = {}

\* what a channel with every bit of its mask set, or none, has to come out as
FullOrClear(pixel, mask, out) ==
    /\ BitsOf(mask) \subseteq BitsOf(pixel) => out = 255
    /\ BitsOf(mask) \cap BitsOf(pixel) = {} => out = 0

\* C14: under contiguous, non-overlapping masks and depth <= 24, a channel with
\* all of its mask bits set normalizes to 255 and with all clear to 0; a pixel
\* with the red bits all set and the green and blue bits clear normalizes to
\* (255, 0, 0, 255).
C14_FullScale ==
    (Normalized /\ PlainFormat(cap_ximg)) =>
        \A k \in 1..(cap_ximg.width * cap_ximg.height) :
            /\ FullOrClear(FramePixel(k), cap_ximg.red_mask, OutPixel(k).r)
            /\ FullOrClear(FramePixel(k), cap_ximg.green_mask, OutPixel(k).g)
            /\ FullOrClear(FramePixel(k), cap_ximg.blue_mask, OutPixel(k).b)
            /\ FramePixel(k) = cap_ximg.red_mask => OutPixel(k) = Pixel(255, 0, 0, 255)

\* a 5-6-5 frame of one pixel, F800 (hex), came out as opaque red
C14_Witness ==
    /\ Normalized /\ PlainFormat(cap_ximg)
    /\ cap_ximg.width * cap_ximg.height = 1
    /\ cap_ximg.red_mask = 63488 /\ cap_ximg.bits_per_pixel = 16
    /\ FramePixel(1) = 63488
    /\ OutPixel(1) = Pixel(255, 0, 0, 255)

\* C15: a frame with width 0 or height 0 normalizes to an image without pixel
\* bytes that has the frame's width and height, and no pixel of the frame is
\* read; for every frame the image has the frame's width and height.
C15_ZeroSizedFrame ==
    Normalized =>
        /\ cap_image.width = cap_ximg.width
        /\ cap_image.height = cap_ximg.height
        /\ (cap_ximg.width = 0 \/ cap_ximg.height = 0) =>
               (cap_image.data = <<>> /\ cap_reads = 0)

\* a frame 0 wide and 2 high came out as an empty image 0 wide and 2 high
C15_Witness ==
    /\ Normalized
    /\ cap_ximg.width = 0 /\ cap_ximg.height = 2
    /\ cap_image.width = 0 /\ cap_image.height = 2
    /\ empty(cap_image) /\ cap_reads = 0

\* C24: for every pixel and every mask, those with bits the pixel cannot have
\* and those with gaps included, extract_channel's loops end within
\* as many turns as the word has bits, no word is shifted by the width of the
\* word or more, and the channel is within 0..255; so is every channel of every
\* pixel ximage_to_image writes.
C24_BoundedExtraction ==
    /\ cap_pc = "extract_channel returned" =>
          /\ cap_channel \in 0..ChannelMax
          /\ cap_work.shift < LongBits
          /\ cap_work.turns <= LongBits
    /\ cap_pc = "ximage_to_image returned" =>
          \A k \in 1..Len(cap_image.data) : cap_image.data[k] \in 0..ChannelMax

\* the mask is the highest bit of the word alone and the pixel has it set:
\* the shift is one less than the width of the word, and the channel is full
C24_Witness ==
    /\ cap_pc = "extract_channel returned"
    /\ cap_mask = 2^(LongBits - 1) /\ cap_pixel = 2^(LongBits - 1) + 2^(LongBits - 3)
    /\ cap_work.shift = LongBits - 1 /\ cap_work.turns = LongBits
    /\ cap_channel = ChannelMax

-----------------------------------------------------------------------------
(* Claims about Image, under SpecImage *)

\* C4: after any sequence of Image operations (construction, copy, move for both
\* source and target, fill, set_pixel, and load_png whether it succeeds or fails
\* at any step), every image's buffer length equals width * height * 4.
C4_BufferLength ==
    \A i \in Objects : Len(obj[i].data) = obj[i].width * obj[i].height * 4

-----------------------------------------------------------------------------
(* Claims about the runner, under Spec *)

\* an iteration of the loop has just ended; Judged is the test it ran
Done == run_pc \in {"loop", "exit"} /\ run_i > 1

Judged == Tests[run_i - 1]

\* the iteration got as far as the reference image
ReachedReference ==
    verdict \in {"generated", "error_save", "error_load", "pass", "fail"}

\* the runner counted the test as passed
CountedPassed == verdict \in {"generated", "pass"}

\* the RGBA8 image a complete PNG file holds, row after row
FileImage(file) ==
    [width |-> file.width, height |-> file.height,
     data |-> [i \in 1..(file.width * file.height * 4) |->
                  file.rows[((i - 1) \div (file.width * 4)) + 1]
                           [((i - 1) % (file.width * 4)) + 1]]]

\* same dimensions and every pixel's RGBA quadruple identical
Identical(a, b) ==
    /\ SameSize(a, b)
    /\ \A pos \in Positions(a), c \in 0..3 : ByteAt(a, pos, c) = ByteAt(b, pos, c)

DefaultSettings(test) == test.tolerance = 0 /\ test.allowed_diff_percent = 0

\* C2 (as stated): whenever the captured image and the reference differ in
\* their dimensions, the comparison the test selects returns match = false and
\* the runner reports the test as failed.
C2_SizeMismatchFails ==
    (Done /\ compared /\ ~ SameSize(reference, captured)) =>
        (~ run_result.match /\ verdict = "fail")

\* C5 (as stated): a self-verifying test (tolerance() == -1) is judged by its
\* own test_passed() and is never compared against a reference image.
C5_SelfVerifyingNotCompared ==
    (Done /\ is_self_verifying(Judged) /\ ReachedReference) =>
        (~ compared /\ (CountedPassed <=> test_passed))

C20_ReferenceReadOnly ==
    [][ /\ (run_pc # "loop" /\ ref_file' # ref_file) =>
              /\ run_pc = "reference"
              /\ opts.regenerate \/ ~ ref_found.exists
        /\ (run_pc = "reference" /\ ref_file.exists /\ ~ opts.regenerate) =>
              /\ ref_file' = ref_file
              /\ ref_file = ref_found ]_vars

\* a test whose reference existed was compared without regeneration and
\* failed, its failure and diff files were saved, and the reference file is
\* the file that was found
C20_Witness ==
    /\ Done /\ verdict = "fail" /\ compared
    /\ ~ opts.regenerate /\ opts.save_failures
    /\ ref_found.exists /\ ref_file = ref_found
    /\ fail_file.valid /\ diff_file.valid
    /\ fail_file # ref_file

\* C21: a failed acquisition (no connection, no window, or XGetImage returning
\* null) is raised before the normalizer is invoked, and the runner takes it
\* as one failed attempt: the step that fails counts the test as failed once
\* and as nothing else, leaves captured and the comparison untouched, writes
\* no file and goes on to the next test; the normalizer and the reference
\* step are reached only with a frame, and the runner never goes back to a
\* test.
C21_FailedAcquisition ==
    [][ /\ (run_pc = "capture" /\ acquired' # "frame") =>
              /\ failed' = failed + 1
              /\ passed' = passed /\ skipped' = skipped
              /\ run_i' = run_i + 1 /\ run_pc' = "loop"
              /\ captured' = EmptyImage /\ reference' = EmptyImage
              /\ ~ compared' /\ run_result' = CompareResult
              /\ ref_file' = ref_file /\ fail_file' = NoFile /\ diff_file' = NoFile
        /\ (run_pc' \in {"normalize", "reference"}) => acquired' = "frame"
        /\ (run_pc = "capture") => run_pc' \in {"loop", "normalize"}
        /\ run_i' >= run_i ]_vars

\* XGetImage returned null for a test after an earlier test was judged: the
\* test was counted as failed, nothing was captured or compared, and the
\* runner stands at the next test
C21_Witness ==
    /\ run_pc = "loop" /\ run_i = 3
    /\ acquired = "null" /\ verdict = "error_capture"
    /\ passed = 1 /\ failed = 1
    /\ captured = EmptyImage /\ ~ compared

\* C27 (as stated): a load_png that fails, at whichever step, returns false
\* and leaves the width, the height and the pixel data of the image it was
\* called on exactly as they were before the call.
C27_FailedLoadLeavesImage ==
    [][ (obj_op'.name = "load_png" /\ ~ obj_ret') => obj' = obj ]_vars

-----------------------------------------------------------------------------
(* Claims about the persistence of Image, under SpecPersist *)

\* the last operation was `name` and none of its steps was failed by its
\* surroundings (the file system, the codec's allocations)
Ran(name) == obj_op.name = name /\ obj_op.outcome = "ok"

\* the buffer holds width * height * 4 bytes
WellFormed(img) == Len(img.data) = img.width * img.height * 4

C26_EveryTestCounted ==
    [][ /\ (run_pc' \in {"loop", "exit"}) =>
              passed' + failed' + skipped' = run_i' - 1
        /\ (run_i' = run_i + 1) =>
              /\ passed' + failed' + skipped' = passed + failed + skipped + 1
              /\ passed' >= passed /\ failed' >= failed /\ skipped' >= skipped
        /\ (run_i' = run_i) => (passed' = passed /\ failed' = failed /\ skipped' = skipped)
        /\ (run_pc # "connect" /\ run_pc' = "exit") =>
              /\ run_i' = Len(Tests) + 1
              /\ passed' + failed' + skipped' = Len(Tests)
              /\ (exit_code' # 0) <=> (failed' > 0) ]_vars

\* a pass has ended in which three tests were skipped by the filter and the
\* fourth failed because its reference could not be loaded
C26_Witness ==
    /\ run_pc = "exit" /\ run_i = Len(Tests) + 1
    /\ skipped = 3 /\ failed = 1 /\ passed = 0
    /\ exit_code = 1

\* C29: for every test that reaches the capture step, the width and height
\* the Display has recorded for its window when the frame is acquired and
\* normalized are the width() and height() the test declares, whatever the
\* size of the window of the test before, and the window is one the server
\* has: destroy_window went before create_window.
C29_WindowSizeAtCapture ==
    (run_pc \in {"capture", "normalize"}) =>
        /\ display.width_ = Test.width /\ display.height_ = Test.height
        /\ is_connected(display) /\ has_window(display)
        /\ display.x_alive = display.window_

\* the second test, whose window is 1 wide and 2 high, is at its capture step
\* after the first, whose window was 2 wide and 1 high, ran and was counted
\* as passed
C29_Witness ==
    /\ run_pc = "capture" /\ run_i = 2 /\ passed = 1
    /\ Tests[1].width = 2 /\ Tests[1].height = 1
    /\ display.width_ = 1 /\ display.height_ = 2
    /\ display.window_ = 2

-----------------------------------------------------------------------------
(* Claims about Display, under SpecDisplay *)

\* C25 (as stated): after any sequence of connect, disconnect, create_window
\* and destroy_window, has_window() implies is_connected(), and the window a
\* Display has is one that exists: not the stale handle of a window that went
\* with an earlier connection.
C25_WindowImpliesConnection ==
    /\ has_window(display) => is_connected(display)
    /\ has_window(display) => display.x_alive = display.window_

-----------------------------------------------------------------------------
(* Claims about the sizes of Image, under SpecSize *)

\* C30 (as stated): for every width and height and every coordinate in range,
\* the buffer holds width * height * 4 bytes, the offset get_pixel and
\* set_pixel compute is (y * width + x) * 4 and its four bytes lie within the
\* buffer, apart from the four bytes of pixel (0, 0) for any other pixel, and
\* the total_pixels of fuzzy is the product width * height: nothing wraps.
C30_NoWrap ==
    /\ Len(sz_image.data) = sz_image.width * sz_image.height * 4
    /\ sz_offset # -1 =>
          /\ sz_offset = (sz_at[2] * sz_image.width + sz_at[1]) * 4
          /\ sz_offset + 4 <= Len(sz_image.data)
          /\ sz_at # <<0, 0>> => sz_offset >= 4
    /\ sz_total # -1 => sz_total = sz_image.width * sz_image.height

====
